---- MODULE Spec2Model ----
(***************************************************************************)
(* Model of the agentic workflow of ai_backend: the LangGraph state graph  *)
(* of app/ai/agents.py (AgentService), the tool registry of                *)
(* app/ai/tools.py and app/services/tool_service.py (ToolService) and the  *)
(* safety gate of app/services/guardrails_service.py (GuardrailsService).  *)
(*                                                                         *)
(* A Python str is modelled as a sequence of tokens (TLA+ strings);        *)
(* concatenation (f-strings, +) is \o.  An expression handed to the        *)
(* calculator is a sequence of one-character tokens.  Optional[x] is <<>>  *)
(* (None) or <<x>>.                                                        *)
(***************************************************************************)
EXTENDS Integers, Sequences, FiniteSets, TLC

(***************************************************************************)
(* Bounds of the model.                                                    *)
(***************************************************************************)
\* settings.AGENT_MAX_ITERATIONS is read from the environment (default 10);
\* the model explores a small value of the setting.
AGENT_MAX_ITERATIONS == 3
\* run() invocations explored in one behaviour
MaxTurns == 2
\* a further turn is started only while the checkpoints hold at most this
\* many messages in all
MaxHistory == 20
\* length of the expressions enumerated for the calculator
MaxExprLen == 3
\* fractional digits kept of a quotient whose expansion does not terminate
ReprDigits == 17
\* a ToolService is explored with at most this many tools registered
MaxRegistered == 2
\* a GuardrailsService is explored for this many checks in a row
MaxChecks == 2
\* a client sends at most this many messages on its connection
MaxMessages == 2

(***************************************************************************)
(* Generic helpers.                                                        *)
(***************************************************************************)
None == <<>>
Some(x) == <<x>>
Last(s) == s[Len(s)]
Min(a, b) == IF a < b THEN a ELSE b
Abs(n) == IF n < 0 THEN 0 - n ELSE n

\* sub in s (Python: sub in s), both sequences
Contains(s, sub) ==
    \E i \in 0..(Len(s) - Len(sub)) :
        \A j \in 1..Len(sub) : s[i + j] = sub[j]

IsPrefix(p, s) ==
    /\ Len(p) <= Len(s)
    /\ \A j \in 1..Len(p) : s[j] = p[j]

\* all sequences over S of length 0..n
RECURSIVE SeqsUpTo(_, _)
SeqsUpTo(S, n) ==
    IF n = 0 THEN {<<>>}
    ELSE LET shorter == SeqsUpTo(S, n - 1)
         IN  shorter \cup {Append(s, c) : s \in {t \in shorter : Len(t) = n - 1}, c \in S}

(***************************************************************************)
(* Python's ast.parse(expression, mode='eval') on the characters the       *)
(* calculators let through: the tokenizer, then the expression grammar.    *)
(***************************************************************************)
Digits == {"0", "1", "2", "3", "4", "5", "6", "7", "8", "9"}
DigitValue(c) ==
    CASE c = "0" -> 0 [] c = "1" -> 1 [] c = "2" -> 2 [] c = "3" -> 3
      [] c = "4" -> 4 [] c = "5" -> 5 [] c = "6" -> 6 [] c = "7" -> 7
      [] c = "8" -> 8 [] c = "9" -> 9
DigitChar(d) ==
    CASE d = 0 -> "0" [] d = 1 -> "1" [] d = 2 -> "2" [] d = 3 -> "3"
      [] d = 4 -> "4" [] d = 5 -> "5" [] d = 6 -> "6" [] d = 7 -> "7"
      [] d = 8 -> "8" [] d = 9 -> "9"

Tok(t, s, n) == [t |-> t, s |-> s, n |-> n]
BadToken == Tok("bad", "", 0)

\* end (exclusive) of the run of digits starting at i
RECURSIVE DigitRunEnd(_, _)
DigitRunEnd(s, i) ==
    IF i <= Len(s) /\ s[i] \in Digits THEN DigitRunEnd(s, i + 1) ELSE i

RECURSIVE DigitsValue(_, _, _, _)
DigitsValue(s, i, j, acc) ==
    IF i >= j THEN acc ELSE DigitsValue(s, i + 1, j, acc * 10 + DigitValue(s[i]))

\* "leading zeros in decimal integer literals are not permitted": 0, 00 are
\* literals, 02 is not
DecimalLiteralOk(s, i, j) ==
    \/ s[i] # "0"
    \/ \A k \in i..(j - 1) : s[k] = "0"

\* the first position from i on that holds no blank (Len(s) + 1: none)
SkipBlanks(s, i) ==
    CHOOSE j \in i..(Len(s) + 1) :
        /\ j = Len(s) + 1 \/ s[j] # " "
        /\ \A k \in i..(j - 1) : s[k] = " "

\* the tokens of s from position i on; a bad token stops the scan
RECURSIVE Tokenize(_, _)
Tokenize(s, i) ==
    IF i > Len(s) THEN <<>>
    ELSE IF s[i] = " " THEN Tokenize(s, SkipBlanks(s, i))
    ELSE IF s[i] \in Digits THEN
        LET j == DigitRunEnd(s, i)
        IN  IF DecimalLiteralOk(s, i, j)
            THEN <<Tok("num", "", DigitsValue(s, i, j, 0))>> \o Tokenize(s, j)
            ELSE <<BadToken>>
    ELSE IF s[i] \in {"*", "/"} /\ i < Len(s) /\ s[i + 1] = s[i]
        THEN <<Tok("op", IF s[i] = "*" THEN "**" ELSE "//", 0)>> \o Tokenize(s, i + 2)
    ELSE IF s[i] \in {"+", "-", "*", "/", "(", ")"}
        THEN <<Tok("op", s[i], 0)>> \o Tokenize(s, i + 1)
    ELSE IF s[i] = "." THEN <<BadToken>>
    ELSE <<Tok("name", s[i], 0)>> \o Tokenize(s, i + 1)

\* Python values the evaluators meet: an int n, a float n/d (d > 0, kept in
\* lowest terms), the empty tuple
IntVal(n) == [ty |-> "int", n |-> n, d |-> 1]
RECURSIVE Gcd(_, _)
Gcd(a, b) == IF b = 0 THEN a ELSE Gcd(b, a % b)
FloatVal(n, d) ==
    LET g == Gcd(Abs(n), d) IN [ty |-> "float", n |-> n \div g, d |-> d \div g]
TupleVal == [ty |-> "tuple", n |-> 0, d |-> 1]

\* AST nodes (ast.Constant, ast.Name, ast.BinOp, ast.UnaryOp, ast.Call, ast.Tuple)
Constant(v) == [k |-> "Constant", value |-> v]
Name(id) == [k |-> "Name", id |-> id]
BinOp(op, l, r) == [k |-> "BinOp", op |-> op, left |-> l, right |-> r]
UnaryOp(op, e) == [k |-> "UnaryOp", op |-> op, operand |-> e]
Call(f, args) == [k |-> "Call", func |-> f, args |-> args]
EmptyTuple == [k |-> "Tuple"]

BinOpName(s) ==
    CASE s = "+" -> "Add" [] s = "-" -> "Sub" [] s = "*" -> "Mult"
      [] s = "/" -> "Div" [] s = "//" -> "FloorDiv" [] s = "**" -> "Pow"
UnaryOpName(s) == IF s = "-" THEN "USub" ELSE "UAdd"

\* a parse result: the node and the position after it
Parsed(node, pos) == [ok |-> TRUE, node |-> node, pos |-> pos]
NoParse == [ok |-> FALSE, node |-> EmptyTuple, pos |-> 0]
IsOp(ts, i, ops) == i <= Len(ts) /\ ts[i].t = "op" /\ ts[i].s \in ops

\* The expression grammar, one rule per case; x is the position a rule starts
\* at, or (the rules that continue a left operand) the operand parsed so far.
\*   sum:     sum ('+' | '-') term | term
\*   term:    term ('*' | '/' | '//') factor | factor
\*   factor:  ('+' | '-') factor | power
\*   power:   primary '**' factor | primary
\*   primary: primary '(' [expression] ')' | atom
\*   atom:    NUMBER | NAME | '(' ')' | '(' expression ')'
RECURSIVE Parse(_, _, _)
Parse(rule, ts, x) ==
    CASE rule = "sum" ->
            LET l == Parse("term", ts, x) IN IF l.ok THEN Parse("sum_rest", ts, l) ELSE NoParse
      [] rule = "sum_rest" ->
            IF IsOp(ts, x.pos, {"+", "-"})
            THEN LET r == Parse("term", ts, x.pos + 1)
                 IN  IF r.ok
                     THEN Parse("sum_rest", ts,
                                Parsed(BinOp(BinOpName(ts[x.pos].s), x.node, r.node), r.pos))
                     ELSE NoParse
            ELSE x
      [] rule = "term" ->
            LET l == Parse("factor", ts, x) IN IF l.ok THEN Parse("term_rest", ts, l) ELSE NoParse
      [] rule = "term_rest" ->
            IF IsOp(ts, x.pos, {"*", "/", "//"})
            THEN LET r == Parse("factor", ts, x.pos + 1)
                 IN  IF r.ok
                     THEN Parse("term_rest", ts,
                                Parsed(BinOp(BinOpName(ts[x.pos].s), x.node, r.node), r.pos))
                     ELSE NoParse
            ELSE x
      [] rule = "factor" ->
            IF IsOp(ts, x, {"+", "-"})
            THEN LET e == Parse("factor", ts, x + 1)
                 IN  IF e.ok THEN Parsed(UnaryOp(UnaryOpName(ts[x].s), e.node), e.pos)
                     ELSE NoParse
            ELSE Parse("power", ts, x)
      [] rule = "power" ->
            LET p == Parse("primary", ts, x)
            IN  IF ~p.ok THEN NoParse
                ELSE IF IsOp(ts, p.pos, {"**"})
                THEN LET e == Parse("factor", ts, p.pos + 1)
                     IN  IF e.ok THEN Parsed(BinOp("Pow", p.node, e.node), e.pos) ELSE NoParse
                ELSE p
      [] rule = "primary" ->
            LET a == Parse("atom", ts, x) IN IF a.ok THEN Parse("trailers", ts, a) ELSE NoParse
      [] rule = "trailers" ->
            IF IsOp(ts, x.pos, {"("})
            THEN IF IsOp(ts, x.pos + 1, {")"})
                 THEN Parse("trailers", ts, Parsed(Call(x.node, <<>>), x.pos + 2))
                 ELSE LET e == Parse("sum", ts, x.pos + 1)
                      IN  IF e.ok /\ IsOp(ts, e.pos, {")"})
                          THEN Parse("trailers", ts, Parsed(Call(x.node, <<e.node>>), e.pos + 1))
                          ELSE NoParse
            ELSE x
      [] rule = "atom" ->
            IF x > Len(ts) THEN NoParse
            ELSE IF ts[x].t = "num" THEN Parsed(Constant(IntVal(ts[x].n)), x + 1)
            ELSE IF ts[x].t = "name" THEN Parsed(Name(ts[x].s), x + 1)
            ELSE IF IsOp(ts, x, {"("})
            THEN IF IsOp(ts, x + 1, {")"}) THEN Parsed(EmptyTuple, x + 2)
                 ELSE LET e == Parse("sum", ts, x + 1)
                      IN  IF e.ok /\ IsOp(ts, e.pos, {")"}) THEN Parsed(e.node, e.pos + 1)
                          ELSE NoParse
            ELSE NoParse

\* ast.parse(expression, mode='eval'): the body of the ast.Expression, or
\* SyntaxError (ok = FALSE); leading whitespace is an IndentationError
ast_parse(expression) ==
    IF expression = <<>> \/ expression[1] = " " THEN NoParse
    ELSE LET ts == Tokenize(expression, 1)
         IN  IF \E i \in DOMAIN ts : ts[i].t = "bad" THEN NoParse
             ELSE LET e == Parse("sum", ts, 1)
                  IN  IF e.ok /\ e.pos = Len(ts) + 1 THEN e ELSE NoParse

(***************************************************************************)
(* str() of a value.                                                       *)
(***************************************************************************)
RECURSIVE NatStr(_)
NatStr(n) == IF n < 10 THEN <<DigitChar(n)>> ELSE Append(NatStr(n \div 10), DigitChar(n % 10))
IntStr(n) == IF n < 0 THEN <<"-">> \o NatStr(0 - n) ELSE NatStr(n)

\* the digits of r/d after the point, r < d: exact when the expansion
\* terminates, else its first k digits
RECURSIVE FractionDigits(_, _, _)
FractionDigits(r, d, k) ==
    IF r = 0 \/ k = 0 THEN <<>>
    ELSE <<DigitChar((r * 10) \div d)>> \o FractionDigits((r * 10) % d, d, k - 1)

FloatStr(v) ==
    LET a == Abs(v.n)
        frac == FractionDigits(a % v.d, v.d, ReprDigits)
    IN  (IF v.n < 0 THEN <<"-">> ELSE <<>>) \o NatStr(a \div v.d) \o <<".">>
            \o (IF frac = <<>> THEN <<"0">> ELSE frac)

str(v) ==
    CASE v.ty = "int" -> IntStr(v.n)
      [] v.ty = "float" -> FloatStr(v)
      [] v.ty = "tuple" -> <<"(", ")">>

(***************************************************************************)
(* Arithmetic of the operator module on those values.  A result is         *)
(* [err, val]: err is None, or Some(str(e)) of the exception raised.       *)
(***************************************************************************)
Ok(v) == [err |-> None, val |-> v]
Raise(msg) == [err |-> Some(msg), val |-> IntVal(0)]
IsNumber(v) == v.ty \in {"int", "float"}
BothInt(a, b) == a.ty = "int" /\ b.ty = "int"

operator_add(a, b) ==
    IF BothInt(a, b) THEN Ok(IntVal(a.n + b.n))
    ELSE IF IsNumber(a) /\ IsNumber(b) THEN Ok(FloatVal(a.n * b.d + b.n * a.d, a.d * b.d))
    ELSE IF a.ty = "tuple" /\ b.ty = "tuple" THEN Ok(TupleVal)
    ELSE Raise("unsupported operand type(s) for +")
operator_sub(a, b) ==
    IF BothInt(a, b) THEN Ok(IntVal(a.n - b.n))
    ELSE IF IsNumber(a) /\ IsNumber(b) THEN Ok(FloatVal(a.n * b.d - b.n * a.d, a.d * b.d))
    ELSE Raise("unsupported operand type(s) for -")
operator_mul(a, b) ==
    IF BothInt(a, b) THEN Ok(IntVal(a.n * b.n))
    ELSE IF IsNumber(a) /\ IsNumber(b) THEN Ok(FloatVal(a.n * b.n, a.d * b.d))
    ELSE IF (a.ty = "tuple" /\ b.ty = "int") \/ (a.ty = "int" /\ b.ty = "tuple") THEN Ok(TupleVal)
    ELSE Raise("can't multiply sequence by non-int")
operator_truediv(a, b) ==
    IF ~(IsNumber(a) /\ IsNumber(b)) THEN Raise("unsupported operand type(s) for /")
    ELSE IF b.n = 0 THEN Raise(IF BothInt(a, b) THEN "division by zero" ELSE "float division by zero")
    ELSE LET sign == IF b.n < 0 THEN 0 - 1 ELSE 1
         IN  Ok(FloatVal(sign * a.n * b.d, Abs(b.n) * a.d))
operator_neg(a) ==
    IF IsNumber(a) THEN Ok([a EXCEPT !.n = 0 - a.n])
    ELSE Raise("bad operand type for unary -")
operator_pos(a) ==
    IF IsNumber(a) THEN Ok(a) ELSE Raise("bad operand type for unary +")

\* floor of n/d, d > 0
Floor(n, d) == IF n >= 0 THEN n \div d ELSE 0 - ((0 - n + d - 1) \div d)
operator_floordiv(a, b) ==
    IF ~(IsNumber(a) /\ IsNumber(b)) THEN Raise("unsupported operand type(s) for //")
    ELSE IF b.n = 0
    THEN Raise(IF BothInt(a, b) THEN "integer division or modulo by zero" ELSE "float floor division by zero")
    ELSE LET sign == IF b.n < 0 THEN 0 - 1 ELSE 1
             q == Floor(sign * a.n * b.d, Abs(b.n) * a.d)
         IN  Ok(IF BothInt(a, b) THEN IntVal(q) ELSE FloatVal(q, 1))

RECURSIVE IntPow(_, _)
IntPow(b, e) == IF e = 0 THEN 1 ELSE b * IntPow(b, e - 1)
\* ** with an integral exponent
operator_pow(a, b) ==
    IF ~(IsNumber(a) /\ IsNumber(b) /\ b.d = 1) THEN Raise("unsupported operand type(s) for **")
    ELSE IF b.n >= 0
    THEN Ok(IF BothInt(a, b) THEN IntVal(IntPow(a.n, b.n))
            ELSE FloatVal(IntPow(a.n, b.n), IntPow(a.d, b.n)))
    ELSE IF a.n = 0 THEN Raise("0.0 cannot be raised to a negative power")
    ELSE LET sign == IF a.n < 0 /\ (0 - b.n) % 2 = 1 THEN 0 - 1 ELSE 1
         IN  Ok(FloatVal(sign * IntPow(a.d, 0 - b.n), IntPow(Abs(a.n), 0 - b.n)))

(***************************************************************************)
(* The calculator tool of app/ai/tools.py.                                 *)
(***************************************************************************)
\* str.lower() on the characters of the model
LowerChar(c) ==
    CASE c = "A" -> "a" [] c = "P" -> "p" [] c = "E" -> "e" [] c = "HATE" -> "hate" [] OTHER -> c
lower(s) == [i \in DOMAIN s |-> LowerChar(s[i])]

allowed_chars ==
    Digits \cup {"+", "-", "*", "/", ".", "(", ")", " "}

\* ast.walk(tree): the ast.Expression root first, then every descendant,
\* breadth first; the operator of a BinOp / UnaryOp and the ctx of a Name /
\* Tuple are nodes too
Expression(body) == [k |-> "Expression", body |-> body]
Children(node) ==
    CASE node.k = "Expression" -> <<node.body>>
      [] node.k = "BinOp" -> <<node.left, [k |-> node.op], node.right>>
      [] node.k = "UnaryOp" -> <<[k |-> node.op], node.operand>>
      [] node.k = "Call" -> <<node.func>> \o node.args
      [] node.k \in {"Name", "Tuple"} -> <<[k |-> "Load"]>>
      [] OTHER -> <<>>
RECURSIVE WalkQueue(_)
WalkQueue(todo) ==
    IF todo = <<>> THEN <<>>
    ELSE <<Head(todo)>> \o WalkQueue(Tail(todo) \o Children(Head(todo)))
ast_walk(tree) == WalkQueue(<<tree>>)

\* the validation loop over ast.walk(tree): None when the loop runs to its
\* end, else the error string it returns
RECURSIVE ValidateNodes(_, _)
ValidateNodes(nodes, i) ==
    IF i > Len(nodes) THEN None
    ELSE IF nodes[i].k \in {"BinOp", "UnaryOp", "Constant"} THEN ValidateNodes(nodes, i + 1)
    ELSE IF nodes[i].k = "BinOp"
    THEN IF nodes[i].op \in {"Add", "Sub", "Mult", "Div"}
         THEN ValidateNodes(nodes, i + 1)
         ELSE Some(<<"Error: ", "Only +, -, *, / operations are allowed">>)
    ELSE Some(<<"Error: ", "Only basic arithmetic operations are allowed">>)

\* ops[type(node.op)]: the operator module's function, or KeyError
ops == {"Add", "Sub", "Mult", "Div", "USub"}
ApplyBin(op, a, b) ==
    CASE op = "Add" -> operator_add(a, b)
      [] op = "Sub" -> operator_sub(a, b)
      [] op = "Mult" -> operator_mul(a, b)
      [] op = "Div" -> operator_truediv(a, b)
      [] op = "FloorDiv" -> operator_floordiv(a, b)
      [] op = "Pow" -> operator_pow(a, b)
ApplyUnary(op, a) == IF op = "USub" THEN operator_neg(a) ELSE operator_pos(a)

RECURSIVE eval_node(_)
eval_node(node) ==
    IF node.k = "Constant" THEN Ok(node.value)
    ELSE IF node.k = "BinOp"
    THEN IF node.op \notin ops THEN Raise("<class 'ast." \o node.op \o "'>")
         ELSE LET l == eval_node(node.left)
              IN  IF l.err # None THEN l
                  ELSE LET r == eval_node(node.right)
                       IN  IF r.err # None THEN r ELSE ApplyBin(node.op, l.val, r.val)
    ELSE IF node.k = "UnaryOp"
    THEN IF node.op \notin ops THEN Raise("<class 'ast." \o node.op \o "'>")
         ELSE LET e == eval_node(node.operand)
              IN  IF e.err # None THEN e ELSE ApplyUnary(node.op, e.val)
    ELSE Raise("Unsupported operation")

calculator(expression) ==
    IF \/ Contains(expression, <<"*", "*">>)
       \/ Contains(lower(expression), <<"p", "o", "w", "(">>)
       \/ Contains(lower(expression), <<"e", "x", "e", "c", "(">>)
       \/ Contains(lower(expression), <<"e", "v", "a", "l", "(">>)
    THEN <<"Error: ", "Power operator and function calls are not allowed">>
    ELSE IF Len(expression) > 100 THEN <<"Error: ", "Expression too long">>
    ELSE IF ~(\A i \in DOMAIN expression : expression[i] \in allowed_chars)
    THEN <<"Error: ", "Invalid characters in expression">>
    ELSE LET parsed == ast_parse(expression)
         IN  IF ~parsed.ok THEN <<"Error: ", "Invalid expression syntax">>
             ELSE LET invalid == ValidateNodes(ast_walk(Expression(parsed.node)), 1)
                  IN  IF invalid # None THEN invalid[1]
                      ELSE LET result == eval_node(parsed.node)
                           IN  IF result.err # None THEN <<"Error: ", result.err[1]>>
                               ELSE str(result.val)

(***************************************************************************)
(* The calculator tool of app/services/tool_service.py, which hands the    *)
(* expression to eval(expression, {"__builtins__": {}}).                   *)
(***************************************************************************)
lstrip(s) == SubSeq(s, SkipBlanks(s, 1), Len(s))

\* Python's evaluation of the parsed expression
RECURSIVE py_eval_node(_)
py_eval_node(node) ==
    CASE node.k = "Constant" -> Ok(node.value)
      [] node.k = "Tuple" -> Ok(TupleVal)
      [] node.k = "Name" -> Raise("name '" \o node.id \o "' is not defined")
      [] node.k = "BinOp" ->
            LET l == py_eval_node(node.left)
            IN  IF l.err # None THEN l
                ELSE LET r == py_eval_node(node.right)
                     IN  IF r.err # None THEN r ELSE ApplyBin(node.op, l.val, r.val)
      [] node.k = "UnaryOp" ->
            LET e == py_eval_node(node.operand)
            IN  IF e.err # None THEN e ELSE ApplyUnary(node.op, e.val)
      [] node.k = "Call" ->
            LET f == py_eval_node(node.func)
            IN  IF f.err # None THEN f
                ELSE IF node.args # <<>> /\ py_eval_node(node.args[1]).err # None
                THEN py_eval_node(node.args[1])
                ELSE Raise("'" \o f.val.ty \o "' object is not callable")

\* eval(): leading blanks are stripped, then the expression is compiled and run
py_eval(expression) ==
    LET parsed == ast_parse(lstrip(expression))
    IN  IF ~parsed.ok THEN Raise("invalid syntax") ELSE py_eval_node(parsed.node)

legacy_calculator(expression) ==
    IF ~(\A i \in DOMAIN expression : expression[i] \in allowed_chars)
    THEN <<"Error: ", "Invalid characters in expression">>
    ELSE LET result == py_eval(expression)
         IN  IF result.err # None THEN <<"Error: ", result.err[1]>>
             ELSE str(result.val)

(***************************************************************************)
(* Messages (langchain_core.messages) and the AgentState of agents.py.     *)
(***************************************************************************)
HumanMessage(content) ==
    [type |-> "human", content |-> content, tool_calls |-> <<>>, tool_call_id |-> None]
SystemMessage(content) ==
    [type |-> "system", content |-> content, tool_calls |-> <<>>, tool_call_id |-> None]
AIMessage(content, tool_calls) ==
    [type |-> "ai", content |-> content, tool_calls |-> tool_calls, tool_call_id |-> None]
ToolMessage(content, tool_call_id) ==
    [type |-> "tool", content |-> content, tool_calls |-> <<>>, tool_call_id |-> tool_call_id]

\* a dict is a sequence of <<key, value>> pairs
Keys(dict) == {dict[i][1] : i \in DOMAIN dict}
Get(dict, key) == dict[CHOOSE i \in DOMAIN dict : dict[i][1] = key][2]

\* a tool call of an assistant message: {"name": .., "args": .., "id": ..}
ToolCall(name, args, id) == [name |-> name, args |-> args, id |-> id]

\* a variant of the reducer: the channel keeps the last value written
last_value(a, b) == b
\* operator.add on two lists: the reducer of the messages channel
operator_add_lists(a, b) == a \o b

\* the initial_state of run() / stream()
initial_state(query) ==
    [messages |-> <<HumanMessage(query)>>,
     user_id |-> "user",
     document_id |-> None,
     iteration_count |-> 0,
     context |-> None,
     tool_results |-> <<>>,
     guardrails_rejected |-> FALSE]

\* the channels of a thread that has no checkpoint
empty_channels == [initial_state(<<>>) EXCEPT !.messages = <<>>]

(***************************************************************************)
(* GuardrailsService.  A pattern is given by the words it matches.         *)
(***************************************************************************)
toxicity_patterns == << {"hate", "violence", "harmful"} >>
pii_patterns ==
    [email |-> {"a@b.com"},
     phone |-> {"555-123-4567"},
     ssn |-> {"123-45-6789"},
     credit_card |-> {"4111-1111-1111-1111"}]
\* the defaults of config.py; the score ceiling 0.5 as a fraction
GUARDRAILS_MAX_TOXICITY_SCORE == [n |-> 1, d |-> 2]
GUARDRAILS_MAX_PII_DETECTION == TRUE
GUARDRAILS_FALLBACK_ENABLED == TRUE

re_search(pattern, text) == \E i \in DOMAIN text : text[i] \in pattern

\* min(matches / len(patterns), 1.0), as a fraction
_check_toxicity(text) ==
    LET text_lower == lower(text)
        matches == Cardinality({p \in DOMAIN toxicity_patterns :
                                    re_search(toxicity_patterns[p], text_lower)})
    IN  IF toxicity_patterns = <<>> THEN [n |-> 0, d |-> 1]
        ELSE [n |-> Min(matches, Len(toxicity_patterns)), d |-> Len(toxicity_patterns)]

_detect_pii(text) == \E pii_type \in DOMAIN pii_patterns : re_search(pii_patterns[pii_type], text)

\* a variant of the comparison with >= for >
ReachesCeiling(cfg, score) ==
    score.n * cfg.GUARDRAILS_MAX_TOXICITY_SCORE.d >= cfg.GUARDRAILS_MAX_TOXICITY_SCORE.n * score.d
\* toxicity_score > settings.GUARDRAILS_MAX_TOXICITY_SCORE, on fractions
ExceedsCeiling(cfg, score) ==
    score.n * cfg.GUARDRAILS_MAX_TOXICITY_SCORE.d > cfg.GUARDRAILS_MAX_TOXICITY_SCORE.n * score.d

\* (is_safe, reason)
check_input(cfg, text) ==
    IF ~cfg.GUARDRAILS_ENABLED THEN [is_safe |-> TRUE, reason |-> <<>>]
    ELSE IF ExceedsCeiling(cfg, _check_toxicity(text))
    THEN [is_safe |-> FALSE, reason |-> <<"Input contains inappropriate content">>]
    ELSE IF cfg.GUARDRAILS_MAX_PII_DETECTION /\ _detect_pii(text)
    THEN [is_safe |-> FALSE, reason |-> <<"Input contains potentially sensitive information">>]
    ELSE [is_safe |-> TRUE, reason |-> <<>>]

check_output(cfg, text) ==
    IF ~cfg.GUARDRAILS_ENABLED THEN [is_safe |-> TRUE, reason |-> <<>>]
    ELSE IF ExceedsCeiling(cfg, _check_toxicity(text))
    THEN IF cfg.GUARDRAILS_FALLBACK_ENABLED
         THEN [is_safe |-> FALSE, reason |-> <<"Response filtered due to content policy">>]
         ELSE [is_safe |-> FALSE, reason |-> <<"Response contains inappropriate content">>]
    ELSE IF cfg.GUARDRAILS_MAX_PII_DETECTION /\ _detect_pii(text)
    THEN [is_safe |-> FALSE, reason |-> <<"Response contains potentially sensitive information">>]
    ELSE [is_safe |-> TRUE, reason |-> <<>>]

(***************************************************************************)
(* ToolService of app/ai/tools.py.                                         *)
(***************************************************************************)
\* self.tools after _initialize_default_tools, in order
default_tools == <<"calculator", "web_search", "wikipedia_search", "get_current_time">>
\* the fields each tool's argument schema requires
args_schema(name) ==
    CASE name = "calculator" -> {"expression"}
      [] name \in {"web_search", "wikipedia_search"} -> {"query"}
      [] OTHER -> {}
DUCKDUCKGO_AVAILABLE == FALSE
WIKIPEDIA_AVAILABLE == FALSE

\* the handler of a default tool, on validated arguments
tool_handler(name, args, now) ==
    CASE name = "calculator" -> calculator(Get(args, "expression"))
      [] name = "web_search" ->
            IF DUCKDUCKGO_AVAILABLE THEN <<"search result">>
            ELSE <<"Web search is not available. Query: ">> \o Get(args, "query")
      [] name = "wikipedia_search" ->
            IF WIKIPEDIA_AVAILABLE THEN <<"wikipedia result">>
            ELSE <<"Wikipedia search is not available. Query: ">> \o Get(args, "query")
      [] name = "get_current_time" -> <<now>>
      [] OTHER -> <<"remote result">>

\* the default tools of app/services/tool_service.py differ in the calculator
services_tool_handler(name, args, now) ==
    IF name = "calculator" THEN legacy_calculator(Get(args, "expression"))
    ELSE tool_handler(name, args, now)

\* A tool object: its name, whether it is one of the tools built by
\* _initialize_default_tools, and for a registered tool whether its handler
\* raises.
Tool(name, default, raises) == [name |-> name, default |-> default, raises |-> raises]
DefaultTool(name) == Tool(name, TRUE, FALSE)
\* a registry (mcp_tools, a2a_tools): a dict from the registered name to the tool
no_registry == [mcp_tools |-> <<>>, a2a_tools |-> <<>>]
\* dict[key] = value
SetItem(dict, key, value) ==
    IF key \in Keys(dict)
    THEN [i \in DOMAIN dict |-> IF dict[i][1] = key THEN <<key, value>> ELSE dict[i]]
    ELSE Append(dict, <<key, value>>)
Values(dict) == {dict[i][2] : i \in DOMAIN dict}

register_mcp_tool(reg, name, tool) == [reg EXCEPT !.mcp_tools = SetItem(@, name, tool)]
register_a2a_tool(reg, name, tool) == [reg EXCEPT !.a2a_tools = SetItem(@, name, tool)]

\* get_available_tools(): the names of the tools on offer
get_available_tools(cfg, reg) ==
    {default_tools[i] : i \in DOMAIN default_tools}
        \cup (IF cfg.AGENT_ENABLE_MCP THEN {t.name : t \in Values(reg.mcp_tools)} ELSE {})
        \cup (IF cfg.AGENT_ENABLE_A2A THEN {t.name : t \in Values(reg.a2a_tools)} ELSE {})

\* tool.ainvoke(args): [raised, value, invoked], value being the result or
\* str(e) of the exception, invoked the handler that ran.  The arguments are
\* validated against the tool's schema before its handler is called.
ainvoke(impl, tool, args, now) ==
    IF tool.default /\ ~(args_schema(tool.name) \subseteq Keys(args))
    THEN [raised |-> TRUE, value |-> <<"validation error for ", tool.name>>, invoked |-> None]
    ELSE IF tool.raises
    THEN [raised |-> TRUE, value |-> <<"remote failure">>, invoked |-> Some(tool)]
    ELSE [raised |-> FALSE,
          value |-> IF ~tool.default THEN <<"remote result">>
                    ELSE IF impl = "app/ai/tools.py" THEN tool_handler(tool.name, args, now)
                    ELSE services_tool_handler(tool.name, args, now),
          invoked |-> Some(tool)]

ToolNotFound(tool_name) ==
    [raised |-> TRUE, value |-> <<"Tool '", tool_name, "' not found">>, invoked |-> None]

\* execute_tool(tool_name, args) of app/ai/tools.py
execute_tool(cfg, reg, tool_name, args, now) ==
    IF \E i \in DOMAIN default_tools : default_tools[i] = tool_name
    THEN ainvoke("app/ai/tools.py", DefaultTool(tool_name), args, now)
    ELSE IF cfg.AGENT_ENABLE_MCP /\ tool_name \in Keys(reg.mcp_tools)
    THEN ainvoke("app/ai/tools.py", Get(reg.mcp_tools, tool_name), args, now)
    ELSE IF cfg.AGENT_ENABLE_A2A /\ tool_name \in Keys(reg.a2a_tools)
    THEN ainvoke("app/ai/tools.py", Get(reg.a2a_tools, tool_name), args, now)
    ELSE ToolNotFound(tool_name)

\* execute_tool(tool_name, args) of app/services/tool_service.py, which
\* looks a name up in mcp_tools and a2a_tools whatever the settings say
services_execute_tool(cfg, reg, tool_name, args, now) ==
    IF \E i \in DOMAIN default_tools : default_tools[i] = tool_name
    THEN ainvoke("app/services/tool_service.py", DefaultTool(tool_name), args, now)
    ELSE IF tool_name \in Keys(reg.mcp_tools)
    THEN ainvoke("app/services/tool_service.py", Get(reg.mcp_tools, tool_name), args, now)
    ELSE IF tool_name \in Keys(reg.a2a_tools)
    THEN ainvoke("app/services/tool_service.py", Get(reg.a2a_tools, tool_name), args, now)
    ELSE ToolNotFound(tool_name)

(***************************************************************************)
(* The explored inputs: services, threads, queries and the answers of the  *)
(* collaborators (retriever, LLM backend, clock).                          *)
(***************************************************************************)
Insts == <<"a1", "a2">>
Threads == <<"t1", "t2">>
Range(seq) == {seq[i] : i \in DOMAIN seq}
Slots == {"r1"}
Queries == { <<"What is 2+2?">>, <<"I", "hate", "it">>, <<"contact", "me", "at", "a@b.com">> }
LLMTexts == { <<"The answer is 4">>, <<"harmful">> }
RagContexts == { <<>>, <<"passage">> }
RagErrors == { "index not loaded" }
Times == { "2026-01-01T00:00:00" }
\* the queries of two turns that run at once
ConcQueries == { <<"What is 2+2?">>, <<"I", "hate", "it">> }

\* the tool-call lists a backend answer of reasoning step k may carry
ToolCallLists(k) ==
    { <<ToolCall("calculator", << <<"expression", <<"2", "+", "2">> >> >>, <<k, 1>>)>>,
      <<ToolCall("get_current_time", <<>>, <<k, 1>>)>>,
      \* an unknown tool, a call without its required argument, a good call
      <<ToolCall("shell", <<>>, <<k, 1>>),
        ToolCall("calculator", <<>>, <<k, 2>>),
        ToolCall("get_current_time", <<>>, <<k, 3>>)>> }

\* the turns of a behaviour in which the backend is explored asking for tools
ToolTurns == {1}

\* the answers of generate_with_tools at reasoning step k
GwtResponses(k, turn) ==
    {AIMessage(text, <<>>) : text \in LLMTexts}
        \cup (IF turn \in ToolTurns
              THEN {AIMessage(<<>>, calls) : calls \in ToolCallLists(k)}
              ELSE {})

SettingsSet ==
    [GUARDRAILS_ENABLED : BOOLEAN,
     GUARDRAILS_MAX_TOXICITY_SCORE : {GUARDRAILS_MAX_TOXICITY_SCORE},
     GUARDRAILS_MAX_PII_DETECTION : {GUARDRAILS_MAX_PII_DETECTION},
     GUARDRAILS_FALLBACK_ENABLED : {GUARDRAILS_FALLBACK_ENABLED},
    
     AGENT_ENABLE_TOOLS : BOOLEAN,
     LLM_PROVIDER : {"openai", "groq"},
     AGENT_ENABLE_MCP : {FALSE},
     AGENT_ENABLE_A2A : {FALSE}]

(***************************************************************************)
(* State.                                                                  *)
(***************************************************************************)
VARIABLES
    settings,      \* app.config.settings
    rag_service,   \* per AgentService: whether it was built with a db_session
    registry,      \* per AgentService: its ToolService's mcp_tools / a2a_tools
    checkpointer,  \* per AgentService: its MemorySaver, thread id -> channels
    thread_log,    \* per thread id: the channels last saved under it, by any service
    turns,         \* run() invocations so far
    run,           \* per slot: the run() in progress (pc, agent, thread_id, query)
    state,         \* per slot: the channel values of the graph run (AgentState)
    result,        \* per slot: what run() returned
    obs,           \* per slot: what the collaborators saw during the turn
    calc,          \* the calculator under test (CalcSpec)
    chats,         \* the Chat records committed to the database
    tsvc,          \* the ToolService call under test (ToolSpec)
    gate,          \* the GuardrailsService under test (GateSpec)
    ws             \* the WebSocket connection and its handler (WsSpec)

vars == <<settings, rag_service, registry, checkpointer, thread_log, turns, run, state, result, obs, calc,
          chats, tsvc, gate, ws>>

no_result ==
    [status |-> "none", response |-> <<>>, tool_results |-> <<>>,
     iterations |-> 0, context_used |-> FALSE]

no_obs ==
    [history |-> <<>>,          \* the thread's saved conversation at the start of the turn
     thread_known |-> FALSE,    \* whether any service had run a turn under the thread id
     thread_history |-> <<>>,   \* the conversation last saved under the thread id, by any service
     retriever_calls |-> 0,
     retriever_raised |-> None, \* str(e) of the exception the retriever raised, if it did
     generate_calls |-> 0,
     gwt_calls |-> 0,
     llm_input |-> <<>>,        \* the conversation of the latest LLM call
     generate_input |-> <<>>,   \* the conversation of the latest call of generate
     \* the latest reasoning step: whether generate_with_tools raised, the calls
     \* of generate it made, whether generate raised
     step |-> [gwt_raised |-> FALSE, generate_calls |-> 0, generate_raised |-> FALSE],
     limit_hit |-> FALSE,
     answers |-> <<>>,          \* the assistant messages the backend produced
     exec_log |-> <<>>]         \* the tool calls executed: [call, raised, value]

\* entry: the entry point of the turn, run() or stream(); caller: the transport
\* function that called it, if any; turn: the number of the turn among those
\* of its slot; stages: the nodes the turn entered so far; events: what
\* stream() yielded so far
idle_run ==
    [pc |-> "idle", agent |-> "a1", thread_id |-> "t1", query |-> <<>>,
     entry |-> "run", caller |-> "none", turn |-> 0, stages |-> <<>>, events |-> <<>>]
tsvc_off == [pc |-> "off", impl |-> "", tool_name |-> "", args |-> <<>>,
             available |-> {}, out |-> ToolNotFound("")]
calc_off == [pc |-> "off", expression |-> <<>>, impl |-> "", out |-> <<>>]
\* checks: the calls of check_input / check_output made so far
gate_off == [pc |-> "off", checks |-> <<>>]
\* the handler of a connection: the file it is of (impl), where it is (pc),
\* the service and the thread id it made, the slot of the turn it started;
\* the connection: whether the client is connected, the data it sent that the
\* handler has not received (inbox), how many it sent (posted); the message in
\* hand: its number among those processed (message), the events of its stream
\* sent on (sent), the pipeline executions started for it (executions), the
\* final_result kept; lost_in: the number of the message in hand when the
\* client disconnected; committed: the numbers of the messages a Chat record
\* was committed for
ws_off ==
    [pc |-> "off", impl |-> "", agent |-> "a1", thread_id |-> "t1", slot |-> "r1",
     connected |-> FALSE, inbox |-> <<>>, posted |-> 0,
     message |-> 0, sent |-> 0, executions |-> 0, final_result |-> None,
     lost_in |-> 0, committed |-> <<>>]

Init ==
    /\ settings \in SettingsSet
    /\ \E db_session \in BOOLEAN : rag_service = [i \in Range(Insts) |-> db_session]
    /\ registry = [i \in Range(Insts) |-> no_registry]
    /\ checkpointer = [i \in Range(Insts) |-> <<>>]
    /\ thread_log = <<>>
    /\ turns = 0
    /\ run = [r \in Slots |-> idle_run]
    /\ state = [r \in Slots |-> empty_channels]
    /\ result = [r \in Slots |-> no_result]
    /\ obs = [r \in Slots |-> no_obs]
    /\ calc = calc_off
    /\ chats = <<>>
    /\ tsvc = tsvc_off
    /\ gate = gate_off
    /\ ws = ws_off

(***************************************************************************)
(* The graph runtime (langgraph): channels, checkpoints, the end of a run. *)
(***************************************************************************)
\* the threads a MemorySaver holds a checkpoint of
SavedThreads(saver) == {saver[i][1] : i \in DOMAIN saver}
Saved(saver, t) == Get(saver, t)
\* a variant of put that writes the channels under every thread id it holds
PutEveryThread(saver, t, channels) ==
    [i \in DOMAIN saver |-> <<saver[i][1], channels>>]
        \o (IF t \in SavedThreads(saver) THEN <<>> ELSE << <<t, channels>> >>)
\* MemorySaver.put
Put(saver, t, channels) ==
    IF t \in SavedThreads(saver)
    THEN [i \in DOMAIN saver |-> IF saver[i][1] = t THEN <<t, channels>> ELSE saver[i]]
    ELSE Append(saver, <<t, channels>>)

\* A node returns the state dict it was given.  Every key is written back to
\* its channel: messages through its reducer operator.add, the others
\* replaced.  state["messages"] is the channel's own list, so an append made
\* in place by the node is in both operands of the reducer.
channel_update(returned) ==
    [returned EXCEPT !.messages = operator_add_lists(returned.messages, returned.messages)]

\* run() lines 283-293: the result extracted from the final state
run_result(final_state) ==
    LET last_message == Last(final_state.messages)
    IN  [status |-> "returned",
         response |-> IF last_message.type = "ai" THEN last_message.content ELSE <<>>,
         tool_results |-> final_state.tool_results,
         iterations |-> final_state.iteration_count,
         context_used |-> final_state.context # None]

\* a variant of the event of a stage that carries the state the stage was given
stale_event(node, before, returned) == [node |-> node, state |-> before]
\* astream (stream_mode "updates"): the event of a stage is {node: what the
\* node returned}
stream_event(node, before, returned) == [node |-> node, state |-> returned]

\* one step of the graph of slot r: the node's returned state is merged into
\* the channels, the checkpoint is saved and control goes to next ("END": the
\* graph is finished and run() returns)
GraphStep(r, returned, next) ==
    LET merged == channel_update(returned)
    IN  /\ state' = [state EXCEPT ![r] = merged]
        /\ checkpointer' = [checkpointer EXCEPT
                ![run[r].agent] = Put(@, run[r].thread_id, merged)]
        /\ thread_log' = Put(thread_log, run[r].thread_id, merged)
        /\ run' = [run EXCEPT
                ![r].pc = IF next = "END" THEN "done" ELSE next,
                ![r].stages = Append(@, run[r].pc),
                ![r].events = IF run[r].entry = "stream"
                              THEN Append(@, stream_event(run[r].pc, state[r], returned))
                              ELSE @]
        /\ result' = IF next = "END" /\ run[r].entry = "run"
                     THEN [result EXCEPT ![r] = run_result(merged)] ELSE result

\* an exception leaves the node: nothing is written, run() raises
GraphRaise(r) ==
    /\ run' = [run EXCEPT ![r].pc = "raised", ![r].stages = Append(@, run[r].pc)]
    /\ result' = [result EXCEPT ![r] = [no_result EXCEPT !.status = "raised"]]
    /\ UNCHANGED <<state, checkpointer, thread_log>>

(***************************************************************************)
(* AgentService.run and the nodes of its graph.                            *)
(***************************************************************************)
\* every thread id some MemorySaver knows; uuid4 never returns one of them
UsedThreads == UNION {SavedThreads(checkpointer[i]) : i \in Range(Insts)}
\* the services that ran a turn, and the first that did not
UsedInsts == {i \in Range(Insts) : checkpointer[i] # <<>>}
\* ids and services that were never used are interchangeable: the first of
\* them stands for all
FirstNotIn(seq, used) ==
    {seq[i] : i \in {j \in DOMAIN seq : seq[j] \notin used /\ \A k \in 1..(j - 1) : seq[k] \in used}}
SavedMessages ==
    LET Count[i \in 0..Len(Insts)] ==
            IF i = 0 THEN 0
            ELSE Count[i - 1] + LET saver == checkpointer[Insts[i]]
                                    PerThread[j \in 0..Len(saver)] ==
                                        IF j = 0 THEN 0
                                        ELSE PerThread[j - 1] + Len(saver[j][2].messages)
                                IN  PerThread[Len(saver)]
    IN  Count[Len(Insts)]

\* a variant of the input step in which only the messages of the input are
\* written and the other channels keep what the checkpoint holds
write_messages_only(channels, input) ==
    [channels EXCEPT !.messages = operator_add_lists(channels.messages, input.messages)]
\* graph.ainvoke(initial_state, config): every key of the input is written to
\* its channel, messages through the reducer and the others replacing what
\* the checkpoint of the thread holds
write_input(channels, input) ==
    [input EXCEPT !.messages = operator_add_lists(channels.messages, input.messages)]

\* run / stream (query, user_id, document_id, thread_id) up to the first
\* node: the input is written to the channels of the thread (messages through
\* the reducer, onto what the checkpoint holds) and the graph is entered
Enter(r, agent, thread_id, query, entry, caller) ==
    LET saver == checkpointer[agent]
        channels == IF thread_id \in SavedThreads(saver)
                    THEN Saved(saver, thread_id) ELSE empty_channels
        entered == write_input(channels, initial_state(query))
    IN  /\ run' = [run EXCEPT ![r] = [pc |-> "guardrails", agent |-> agent,
                                      thread_id |-> thread_id, query |-> query,
                                      entry |-> entry, caller |-> caller,
                                      turn |-> run[r].turn + 1,
                                      stages |-> <<>>, events |-> <<>>]]
        /\ state' = [state EXCEPT ![r] = entered]
        /\ checkpointer' = [checkpointer EXCEPT ![agent] = Put(@, thread_id, entered)]
        /\ thread_log' = Put(thread_log, thread_id, entered)
        /\ obs' = [obs EXCEPT ![r] = [no_obs EXCEPT
                !.history = channels.messages,
                !.thread_known = thread_id \in SavedThreads(thread_log),
                !.thread_history = IF thread_id \in SavedThreads(thread_log)
                                   THEN Saved(thread_log, thread_id).messages
                                   ELSE <<>>]]
        /\ result' = [result EXCEPT ![r] = no_result]
        /\ turns' = turns + 1

\* a call of run(): on any service, with a thread id given by the caller or
\* None and a fresh uuid4
run_start(r) ==
    /\ run[r].pc \in {"idle", "done", "raised"}
    /\ turns < MaxTurns
    /\ SavedMessages <= MaxHistory
    /\ \E agent \in UsedInsts \cup FirstNotIn(Insts, UsedInsts), query \in Queries :
        \E thread_id \in UsedThreads \cup FirstNotIn(Threads, UsedThreads) :
            Enter(r, agent, thread_id, query, "run", "none")
    /\ UNCHANGED <<settings, rag_service, registry, calc, chats, tsvc, gate, ws>>

\* a variant of the edge after the input gate that never rejects
always_continue_after_guardrails(s) == "continue"
_should_continue_after_guardrails(s) ==
    IF s.guardrails_rejected THEN "reject" ELSE "continue"

_guardrails_node(r) ==
    /\ run[r].pc = "guardrails"
    /\ LET s == [state[r] EXCEPT !.guardrails_rejected = FALSE]
           last_message == Last(s.messages)
           checked == check_input(settings, last_message.content)
           returned ==
               IF ~settings.GUARDRAILS_ENABLED THEN s
               ELSE IF last_message.type = "human" /\ ~checked.is_safe
               THEN [s EXCEPT
                        !.messages = Append(@, AIMessage(<<"Input rejected: ">> \o checked.reason, <<>>)),
                        !.guardrails_rejected = TRUE]
               ELSE s
       IN  GraphStep(r, returned,
                     IF _should_continue_after_guardrails(returned) = "reject"
                     THEN "END" ELSE "rag_retrieval")
    /\ UNCHANGED <<settings, rag_service, registry, turns, obs, calc, chats, tsvc, gate, ws>>

_should_use_rag(s) ==
    IF s.context # None /\ s.context[1] # <<>> THEN "use_rag" ELSE "skip_rag"

\* a variant of the except clause that leaves an empty context
no_error_context(e) == <<>>
\* line 123: f"Error retrieving context: {str(e)}"
retrieval_error_context(e) == <<"Error retrieving context: ", e>>

\* both branches of _should_use_rag lead to the agent node
_rag_retrieval_node(r) ==
    /\ run[r].pc = "rag_retrieval"
    /\ LET s == state[r]
           last_message == Last(s.messages)
       IN  IF ~rag_service[run[r].agent] \/ last_message.type # "human"
           THEN /\ GraphStep(r, s, "agent")
                /\ obs' = obs
           ELSE \/ \E context \in RagContexts :
                    /\ GraphStep(r, [s EXCEPT !.context = Some(context)], "agent")
                    /\ obs' = [obs EXCEPT ![r].retriever_calls = @ + 1]
                \/ \E e \in RagErrors :
                    /\ GraphStep(r, [s EXCEPT !.context = Some(retrieval_error_context(e))],
                                 "agent")
                    /\ obs' = [obs EXCEPT ![r].retriever_calls = @ + 1,
                                          ![r].retriever_raised = Some(e)]
    /\ UNCHANGED <<settings, rag_service, registry, turns, calc, chats, tsvc, gate, ws>>

_get_system_prompt == <<"You are a helpful AI assistant with access to document knowledge and tools.">>
LimitMessage == <<"Maximum iterations reached. Please try a simpler query.">>

\* list.insert(-1, x)
InsertBeforeLast(list, x) ==
    IF list = <<>> THEN <<x>>
    ELSE SubSeq(list, 1, Len(list) - 1) \o <<x, Last(list)>>

\* the conversation the agent node builds for the LLM (lines 133-147)
agent_messages(s) ==
    LET with_context ==
            IF s.context # None /\ s.context[1] # <<>>
            THEN InsertBeforeLast(s.messages,
                    SystemMessage(<<"Relevant context from documents:\n">> \o s.context[1]))
            ELSE s.messages
    IN  IF ~(\E i \in DOMAIN with_context : with_context[i].type = "system")
        THEN <<SystemMessage(_get_system_prompt)>> \o with_context
        ELSE with_context

\* a variant of the limit test (line 150) with > for >=
IterationLimitExceeded(s) == s.iteration_count > AGENT_MAX_ITERATIONS
\* line 150: state.get("iteration_count", 0) >= settings.AGENT_MAX_ITERATIONS
IterationLimitReached(s) == s.iteration_count >= AGENT_MAX_ITERATIONS

\* a variant of the edge after the reasoning step that always runs tools
always_use_tools(s) == "use_tools"
_should_use_tools(s) ==
    LET last_message == Last(s.messages)
    IN  IF last_message.type = "ai" /\ last_message.tool_calls # <<>>
        THEN "use_tools" ELSE "no_tools"

AfterAgent(s) ==
    IF _should_use_tools(channel_update(s)) = "use_tools"
    THEN "tool_execution" ELSE "response_generation"

\* the agent node appends response and returns
AgentAppend(r, s, response) ==
    LET returned == [s EXCEPT !.messages = Append(@, response)]
    IN  GraphStep(r, returned, AfterAgent(returned))

_agent_node(r) ==
    /\ run[r].pc = "agent"
    /\ LET s == state[r]
           messages == agent_messages(s)
           o == obs[r]
       IN  IF IterationLimitReached(s)
           THEN \* the limit message goes to the local copy only; state is returned as it is
                /\ GraphStep(r, s, AfterAgent(s))
                /\ obs' = [obs EXCEPT ![r].limit_hit = TRUE]
           ELSE LET s1 == [s EXCEPT !.iteration_count = @ + 1]
                    tools == IF settings.AGENT_ENABLE_TOOLS /\ settings.LLM_PROVIDER # "groq"
                             THEN get_available_tools(settings, registry[run[r].agent])
                             ELSE {}
                    seen == [o EXCEPT !.llm_input = messages]
                IN  IF tools # {}
                    THEN \/ \E response \in GwtResponses(s1.iteration_count, run[r].turn) :
                              /\ AgentAppend(r, s1, response)
                              /\ obs' = [obs EXCEPT ![r] = [seen EXCEPT
                                    !.gwt_calls = @ + 1,
                                    !.step = [gwt_raised |-> FALSE, generate_calls |-> 0,
                                               generate_raised |-> FALSE],
                                    !.answers = Append(@, response)]]
                         \/ \E text \in LLMTexts :
                              /\ AgentAppend(r, s1, AIMessage(text, <<>>))
                              /\ obs' = [obs EXCEPT ![r] = [seen EXCEPT
                                    !.gwt_calls = @ + 1,
                                    !.generate_calls = @ + 1,
                                    !.generate_input = messages,
                                    !.step = [gwt_raised |-> TRUE, generate_calls |-> 1,
                                               generate_raised |-> FALSE],
                                    !.answers = Append(@, AIMessage(text, <<>>))]]
                         \/ /\ GraphRaise(r)
                            /\ obs' = [obs EXCEPT ![r] = [seen EXCEPT
                                    !.gwt_calls = @ + 1,
                                    !.generate_calls = @ + 1,
                                    !.generate_input = messages,
                                    !.step = [gwt_raised |-> TRUE, generate_calls |-> 1,
                                               generate_raised |-> TRUE]]]
                    ELSE \/ \E text \in LLMTexts :
                              /\ AgentAppend(r, s1, AIMessage(text, <<>>))
                              /\ obs' = [obs EXCEPT ![r] = [seen EXCEPT
                                    !.generate_calls = @ + 1,
                                    !.generate_input = messages,
                                    !.step = [gwt_raised |-> FALSE, generate_calls |-> 1,
                                               generate_raised |-> FALSE],
                                    !.answers = Append(@, AIMessage(text, <<>>))]]
                         \/ /\ GraphRaise(r)
                            /\ obs' = [obs EXCEPT ![r] = [seen EXCEPT
                                    !.generate_calls = @ + 1,
                                    !.generate_input = messages,
                                    !.step = [gwt_raised |-> FALSE, generate_calls |-> 1,
                                               generate_raised |-> TRUE]]]
    /\ UNCHANGED <<settings, rag_service, registry, turns, calc, chats, tsvc, gate, ws>>

\* one pass of the loop body (lines 196-217) for tool_call, done being what
\* execute_tool did: the tool message appended, the entry added to the local
\* tool_results (none when the call raised) and the call as executed
ToolCallOutcome(tool_call, done) ==
    [messages |-> << ToolMessage(IF done.raised
                                 THEN <<"Error executing tool: ">> \o done.value
                                 ELSE done.value,
                                 tool_call.id) >>,
     tool_results |-> IF done.raised THEN <<>>
                      ELSE << [tool |-> tool_call.name, result |-> done.value] >>,
     log |-> << [call |-> tool_call, raised |-> done.raised, value |-> done.value] >>]
ThenOutcome(first, rest) ==
    [messages |-> first.messages \o rest.messages,
     tool_results |-> first.tool_results \o rest.tool_results,
     log |-> first.log \o rest.log]

\* the loop over last_message.tool_calls (lines 195-217) from call i on
RECURSIVE RunToolCalls(_, _, _, _, _)
RunToolCalls(cfg, reg, tool_calls, i, now) ==
    IF i > Len(tool_calls) THEN [messages |-> <<>>, tool_results |-> <<>>, log |-> <<>>]
    ELSE ThenOutcome(
            ToolCallOutcome(tool_calls[i],
                            execute_tool(cfg, reg, tool_calls[i].name, tool_calls[i].args, now)),
            RunToolCalls(cfg, reg, tool_calls, i + 1, now))

\* a variant of the edge after the tool stage that ends the turn
tool_execution_to_response == "response_generation"
\* line 78: workflow.add_edge("tool_execution", "agent")
after_tool_execution == "agent"

\* lines 219-220: the tool messages are on state["messages"], the local
\* tool_results replaces state["tool_results"], the state is returned
ToolsExecuted(r, s, ran) ==
    /\ GraphStep(r, [s EXCEPT !.messages = @ \o ran.messages,
                              !.tool_results = ran.tool_results], after_tool_execution)
    /\ obs' = [obs EXCEPT ![r].exec_log = @ \o ran.log]

_tool_execution_node(r) ==
    /\ run[r].pc = "tool_execution"
    /\ \E now \in Times :
        LET last_message == Last(state[r].messages)
        IN  ToolsExecuted(r, state[r],
                RunToolCalls(settings, registry[run[r].agent],
                             IF last_message.type = "ai" THEN last_message.tool_calls ELSE <<>>,
                             1, now))
    /\ UNCHANGED <<settings, rag_service, registry, turns, calc, chats, tsvc, gate, ws>>

_response_generation_node(r) ==
    /\ run[r].pc = "response_generation"
    /\ LET s == state[r]
           last_message == Last(s.messages)
           checked == check_output(settings, last_message.content)
           returned ==
               IF settings.GUARDRAILS_ENABLED /\ last_message.type = "ai" /\ ~checked.is_safe
               THEN [s EXCEPT !.messages[Len(s.messages)] =
                        [last_message EXCEPT !.content = <<"Response filtered: ">> \o checked.reason]]
               ELSE s
       IN  GraphStep(r, returned, "END")
    /\ UNCHANGED <<settings, rag_service, registry, turns, obs, calc, chats, tsvc, gate, ws>>

Next ==
    \E r \in Slots :
        \/ run_start(r)
        \/ _guardrails_node(r)
        \/ _rag_retrieval_node(r)
        \/ _agent_node(r)
        \/ _tool_execution_node(r)
        \/ _response_generation_node(r)

Spec == Init /\ [][Next]_vars

\* a node of the graph of slot r runs
NodeStep(r) ==
    \/ _guardrails_node(r)
    \/ _rag_retrieval_node(r)
    \/ _agent_node(r)
    \/ _tool_execution_node(r)
    \/ _response_generation_node(r)
\* the turn of slot r moves on: the node it is at returns or raises.  Under
\* Next these are the steps of NodeStep(r).
TurnMoves(r) ==
    /\ run[r].pc \in {"guardrails", "rag_retrieval", "agent", "tool_execution",
                       "response_generation"}
    /\ \E next \in {"rag_retrieval", "agent", "tool_execution", "response_generation",
                     "done", "raised"} :
        run' = [run EXCEPT ![r].pc = next, ![r].stages = Append(@, run[r].pc)]
\* the event loop resumes a turn whose awaited call has come back: a turn
\* that is at a node eventually moves on
LiveSpec == Init /\ [][Next]_vars /\ \A r \in Slots : WF_run(TurnMoves(r))

(***************************************************************************)
(* The two calculator tools on their own: an expression is handed to the   *)
(* calculator of app/ai/tools.py (the one the workflow's ToolService       *)
(* registers) or to the one of app/services/tool_service.py.               *)
(***************************************************************************)
ExprChars == {"0", "1", "2", "+", "-", "*", "/", "(", ")", " ", "a"}
Spaces(n) == [i \in 1..n |-> " "]
\* every expression of at most MaxExprLen characters, some longer ones, and
\* one padded with blanks past the length the calculator accepts
CalcExpressions ==
    SeqsUpTo(ExprChars, MaxExprLen)
        \cup { <<"2", "*", "*", "2">>, <<"2", "/", "/", "2">>, <<"(", "2", "+", "2", ")", "*", "2">>,
               <<"2", "+", "2">> \o Spaces(98) }

CalcInit ==
    /\ settings = [GUARDRAILS_ENABLED |-> TRUE,
                   GUARDRAILS_MAX_TOXICITY_SCORE |-> GUARDRAILS_MAX_TOXICITY_SCORE,
                   GUARDRAILS_MAX_PII_DETECTION |-> GUARDRAILS_MAX_PII_DETECTION,
                   GUARDRAILS_FALLBACK_ENABLED |-> GUARDRAILS_FALLBACK_ENABLED,
                   AGENT_ENABLE_TOOLS |-> TRUE,
                   LLM_PROVIDER |-> "groq", AGENT_ENABLE_MCP |-> FALSE,
                   AGENT_ENABLE_A2A |-> FALSE]
    /\ rag_service = [i \in Range(Insts) |-> FALSE]
    /\ registry = [i \in Range(Insts) |-> no_registry]
    /\ checkpointer = [i \in Range(Insts) |-> <<>>]
    /\ thread_log = <<>>
    /\ turns = 0
    /\ run = [r \in Slots |-> idle_run]
    /\ state = [r \in Slots |-> empty_channels]
    /\ result = [r \in Slots |-> no_result]
    /\ obs = [r \in Slots |-> no_obs]
    /\ \E expression \in CalcExpressions :
        calc = [pc |-> "call", expression |-> expression, impl |-> "", out |-> <<>>]
    /\ chats = <<>>
    /\ tsvc = tsvc_off
    /\ gate = gate_off
    /\ ws = ws_off

\* app/ai/tools.py: calculator(expression)
ai_tools_calculator ==
    /\ calc.pc = "call"
    /\ calc' = [calc EXCEPT !.pc = "returned", !.impl = "app/ai/tools.py",
                            !.out = calculator(calc.expression)]
    /\ UNCHANGED <<settings, rag_service, registry, checkpointer, thread_log, turns,
                   run, state, result, obs, chats, tsvc, gate, ws>>

\* app/services/tool_service.py: calculator(expression)
services_calculator ==
    /\ calc.pc = "call"
    /\ calc' = [calc EXCEPT !.pc = "returned", !.impl = "app/services/tool_service.py",
                            !.out = legacy_calculator(calc.expression)]
    /\ UNCHANGED <<settings, rag_service, registry, checkpointer, thread_log, turns,
                   run, state, result, obs, chats, tsvc, gate, ws>>

CalcNext == ai_tools_calculator \/ services_calculator

CalcSpec == CalcInit /\ [][CalcNext]_vars

(***************************************************************************)
(* The ToolService on its own: tools are registered under the MCP and A2A  *)
(* registries, then execute_tool is called, on the ToolService of          *)
(* app/ai/tools.py or on the one of app/services/tool_service.py.          *)
(***************************************************************************)
\* no turn was started and none is in progress
NoTurns ==
    /\ rag_service = [i \in Range(Insts) |-> FALSE]
    /\ checkpointer = [i \in Range(Insts) |-> <<>>]
    /\ thread_log = <<>>
    /\ turns = 0
    /\ run = [r \in Slots |-> idle_run]
    /\ state = [r \in Slots |-> empty_channels]
    /\ result = [r \in Slots |-> no_result]
    /\ obs = [r \in Slots |-> no_obs]
    /\ chats = <<>>

\* the tools registered: one that answers and one whose handler raises
RemoteTools == { Tool("remote", FALSE, FALSE), Tool("fetch", FALSE, TRUE) }
\* the names they are registered under
RegisteredNames == {"remote", "fetch", "calculator"}
\* the calls of execute_tool explored
ToolNames == Range(default_tools) \cup RegisteredNames \cup {"shell"}
ToolArgs == { <<>>, << <<"expression", <<"2", "+", "2">> >>, <<"query", <<"x">> >> >> }
\* the ToolService under test is the one of service "a1"
Registered == Len(registry["a1"].mcp_tools) + Len(registry["a1"].a2a_tools)

ToolInit ==
    /\ settings \in [GUARDRAILS_ENABLED : {TRUE},
     GUARDRAILS_MAX_TOXICITY_SCORE : {GUARDRAILS_MAX_TOXICITY_SCORE},
     GUARDRAILS_MAX_PII_DETECTION : {GUARDRAILS_MAX_PII_DETECTION},
     GUARDRAILS_FALLBACK_ENABLED : {GUARDRAILS_FALLBACK_ENABLED},
     AGENT_ENABLE_TOOLS : {TRUE},
                     LLM_PROVIDER : {"openai"}, AGENT_ENABLE_MCP : BOOLEAN,
                     AGENT_ENABLE_A2A : BOOLEAN]
    /\ registry = [i \in Range(Insts) |-> no_registry]
    /\ NoTurns
    /\ calc = calc_off
    /\ tsvc = [tsvc_off EXCEPT !.pc = "idle"]
    /\ gate = gate_off
    /\ ws = ws_off

tool_service_register_mcp_tool ==
    /\ tsvc.pc = "idle"
    /\ Registered < MaxRegistered
    /\ \E name \in RegisteredNames, tool \in RemoteTools :
        registry' = [registry EXCEPT !["a1"] = register_mcp_tool(@, name, tool)]
    /\ UNCHANGED <<settings, rag_service, checkpointer, thread_log, turns, run, state,
                   result, obs, calc, chats, tsvc, gate, ws>>

tool_service_register_a2a_tool ==
    /\ tsvc.pc = "idle"
    /\ Registered < MaxRegistered
    /\ \E name \in RegisteredNames, tool \in RemoteTools :
        registry' = [registry EXCEPT !["a1"] = register_a2a_tool(@, name, tool)]
    /\ UNCHANGED <<settings, rag_service, checkpointer, thread_log, turns, run, state,
                   result, obs, calc, chats, tsvc, gate, ws>>

\* what a call of execute_tool leaves: the call, the names
\* get_available_tools() returned when it was made, and its outcome
ToolCalled(impl, tool_name, args, out) ==
    /\ tsvc' = [pc |-> "returned", impl |-> impl, tool_name |-> tool_name, args |-> args,
                available |-> get_available_tools(settings, registry["a1"]), out |-> out]
    /\ UNCHANGED <<settings, rag_service, registry, checkpointer, thread_log, turns, run,
                   state, result, obs, calc, chats, gate, ws>>

\* app/ai/tools.py: ToolService.execute_tool(tool_name, args)
ai_tools_execute_tool ==
    /\ tsvc.pc = "idle"
    /\ \E tool_name \in ToolNames, args \in ToolArgs, now \in Times :
        ToolCalled("app/ai/tools.py", tool_name, args,
                   execute_tool(settings, registry["a1"], tool_name, args, now))

\* app/services/tool_service.py: ToolService.execute_tool(tool_name, args)
services_tool_service_execute_tool ==
    /\ tsvc.pc = "idle"
    /\ \E tool_name \in ToolNames, args \in ToolArgs, now \in Times :
        ToolCalled("app/services/tool_service.py", tool_name, args,
                   services_execute_tool(settings, registry["a1"], tool_name, args, now))

ToolNext ==
    \/ tool_service_register_mcp_tool
    \/ tool_service_register_a2a_tool
    \/ ai_tools_execute_tool
    \/ services_tool_service_execute_tool

ToolSpec == ToolInit /\ [][ToolNext]_vars

(***************************************************************************)
(* The transport side: the HTTP handler create_chat of                     *)
(* app/api/routes/chat.py, ChatService.create_chat and the WebSocket       *)
(* handler websocket_chat, each around one turn of the workflow.           *)
(***************************************************************************)
Chat(question, answer, caller) == [question |-> question, answer |-> answer, caller |-> caller]
\* a handler can be entered on slot r
HandlerFree(r) ==
    /\ run[r].pc \in {"idle", "responded", "failed"}
    /\ turns < MaxTurns
    /\ SavedMessages <= MaxHistory

ChatInit ==
    /\ settings \in [GUARDRAILS_ENABLED : BOOLEAN,
     GUARDRAILS_MAX_TOXICITY_SCORE : {GUARDRAILS_MAX_TOXICITY_SCORE},
     GUARDRAILS_MAX_PII_DETECTION : {GUARDRAILS_MAX_PII_DETECTION},
     GUARDRAILS_FALLBACK_ENABLED : {GUARDRAILS_FALLBACK_ENABLED},
     AGENT_ENABLE_TOOLS : {TRUE},
                     LLM_PROVIDER : {"openai", "groq"}, AGENT_ENABLE_MCP : {FALSE},
                     AGENT_ENABLE_A2A : {FALSE}]
    \* every transport builds its AgentService with a db_session
    /\ rag_service = [i \in Range(Insts) |-> TRUE]
    /\ registry = [i \in Range(Insts) |-> no_registry]
    /\ checkpointer = [i \in Range(Insts) |-> <<>>]
    /\ thread_log = <<>>
    /\ turns = 0
    /\ run = [r \in Slots |-> idle_run]
    /\ state = [r \in Slots |-> empty_channels]
    /\ result = [r \in Slots |-> no_result]
    /\ obs = [r \in Slots |-> no_obs]
    /\ calc = calc_off
    /\ chats = <<>>
    /\ tsvc = tsvc_off
    /\ gate = gate_off
    /\ ws = ws_off

\* the end of a handler that called run(): the Chat record is added and
\* committed, or the exception of run() is answered with an error
RunAnswered(r) ==
    /\ IF run[r].pc = "done"
       THEN /\ chats' = Append(chats, Chat(run[r].query, result[r].response, run[r].caller))
            /\ run' = [run EXCEPT ![r].pc = "responded"]
       ELSE /\ chats' = chats
            /\ run' = [run EXCEPT ![r].pc = "failed"]
    /\ UNCHANGED <<settings, rag_service, registry, checkpointer, thread_log, turns, state,
                   result, obs, calc, tsvc, gate, ws>>

\* create_chat, lines 26-33: a new AgentService, run() under a new uuid4
create_chat_run(r) ==
    /\ HandlerFree(r)
    /\ \E agent \in FirstNotIn(Insts, UsedInsts), query \in Queries,
          thread_id \in FirstNotIn(Threads, UsedThreads) :
            Enter(r, agent, thread_id, query, "run", "create_chat")
    /\ UNCHANGED <<settings, rag_service, registry, calc, chats, tsvc, gate, ws>>

\* create_chat, lines 35-55
create_chat_respond(r) ==
    /\ run[r].caller = "create_chat"
    /\ run[r].pc \in {"done", "raised"}
    /\ RunAnswered(r)

\* ChatService.create_chat, lines 26-34: run() on the service's AgentService
\* without a thread id
ChatService_create_chat_run(r) ==
    /\ HandlerFree(r)
    /\ \E agent \in UsedInsts \cup FirstNotIn(Insts, UsedInsts), query \in Queries,
          thread_id \in FirstNotIn(Threads, UsedThreads) :
            Enter(r, agent, thread_id, query, "run", "ChatService.create_chat")
    /\ UNCHANGED <<settings, rag_service, registry, calc, chats, tsvc, gate, ws>>

\* ChatService.create_chat, lines 36-58
ChatService_create_chat_respond(r) ==
    /\ run[r].caller = "ChatService.create_chat"
    /\ run[r].pc \in {"done", "raised"}
    /\ RunAnswered(r)

\* websocket_chat, lines 164-171: a message received on a connection is
\* streamed on the connection's AgentService under the connection's thread id
websocket_chat_stream(r) ==
    /\ HandlerFree(r)
    /\ \E agent \in UsedInsts \cup FirstNotIn(Insts, UsedInsts), query \in Queries,
          thread_id \in UsedThreads \cup FirstNotIn(Threads, UsedThreads) :
            \* a connection's thread id is a uuid4 drawn by its own handler
            /\ thread_id \in UsedThreads => thread_id \in SavedThreads(checkpointer[agent])
            /\ Enter(r, agent, thread_id, query, "stream", "websocket_chat")
    /\ UNCHANGED <<settings, rag_service, registry, calc, chats, tsvc, gate, ws>>

\* websocket_chat, lines 183-196: the final result is taken from the last
\* event whose state has messages
final_result(events) ==
    LET last_msg == Last(Last(events).state.messages)
    IN  [response |-> last_msg.content,
         tool_results |-> Last(events).state.tool_results,
         iterations |-> Last(events).state.iteration_count]

\* websocket_chat, lines 198-239
websocket_chat_respond(r) ==
    /\ run[r].caller = "websocket_chat"
    /\ run[r].pc \in {"done", "raised"}
    /\ IF run[r].pc = "done"
       THEN /\ chats' = Append(chats, Chat(run[r].query, final_result(run[r].events).response,
                                           run[r].caller))
            /\ run' = [run EXCEPT ![r].pc = "responded"]
       ELSE /\ chats' = chats
            /\ run' = [run EXCEPT ![r].pc = "failed"]
    /\ UNCHANGED <<settings, rag_service, registry, checkpointer, thread_log, turns, state,
                   result, obs, calc, tsvc, gate, ws>>

ChatNext ==
    \E r \in Slots :
        \/ create_chat_run(r)
        \/ create_chat_respond(r)
        \/ ChatService_create_chat_run(r)
        \/ ChatService_create_chat_respond(r)
        \/ websocket_chat_stream(r)
        \/ websocket_chat_respond(r)
        \/ _guardrails_node(r)
        \/ _rag_retrieval_node(r)
        \/ _agent_node(r)
        \/ _tool_execution_node(r)
        \/ _response_generation_node(r)

ChatSpec == ChatInit /\ [][ChatNext]_vars

(***************************************************************************)
(* AgentService.stream: the same graph, consumed event by event.           *)
(***************************************************************************)
\* a call of stream(): on any service, with a thread id given by the caller
\* or None and a fresh uuid4
stream_start(r) ==
    /\ run[r].pc \in {"idle", "done", "raised"}
    /\ turns < MaxTurns
    /\ SavedMessages <= MaxHistory
    /\ \E agent \in UsedInsts \cup FirstNotIn(Insts, UsedInsts), query \in Queries :
        \E thread_id \in UsedThreads \cup FirstNotIn(Threads, UsedThreads) :
            Enter(r, agent, thread_id, query, "stream", "none")
    /\ UNCHANGED <<settings, rag_service, registry, calc, chats, tsvc, gate, ws>>

StreamNext ==
    \E r \in Slots :
        \/ stream_start(r)
        \/ _guardrails_node(r)
        \/ _rag_retrieval_node(r)
        \/ _agent_node(r)
        \/ _tool_execution_node(r)
        \/ _response_generation_node(r)

StreamSpec == Init /\ [][StreamNext]_vars

(***************************************************************************)
(* Two turns at once on one AgentService, under distinct thread ids: their *)
(* nodes interleave wherever a node awaits.                                *)
(***************************************************************************)
ConcSlots == {"r1", "r2"}
\* the thread ids of the turns in progress or finished
TakenThreads == {run[q].thread_id : q \in {q \in ConcSlots : run[q].pc # "idle"}}

ConcInit ==
    /\ settings \in [GUARDRAILS_ENABLED : BOOLEAN,
     GUARDRAILS_MAX_TOXICITY_SCORE : {GUARDRAILS_MAX_TOXICITY_SCORE},
     GUARDRAILS_MAX_PII_DETECTION : {GUARDRAILS_MAX_PII_DETECTION},
     GUARDRAILS_FALLBACK_ENABLED : {GUARDRAILS_FALLBACK_ENABLED},
     AGENT_ENABLE_TOOLS : {TRUE},
                     LLM_PROVIDER : {"openai"}, AGENT_ENABLE_MCP : {FALSE},
                     AGENT_ENABLE_A2A : {FALSE}]
    /\ rag_service = [i \in Range(Insts) |-> FALSE]
    /\ registry = [i \in Range(Insts) |-> no_registry]
    /\ checkpointer = [i \in Range(Insts) |-> <<>>]
    /\ thread_log = <<>>
    /\ turns = 0
    \* the backend is explored asking for tools in the turn of slot "r1" only:
    \* the turn of "r2" is numbered past ToolTurns
    /\ run = [r \in ConcSlots |-> IF r = "r1" THEN idle_run ELSE [idle_run EXCEPT !.turn = 1]]
    /\ state = [r \in ConcSlots |-> empty_channels]
    /\ result = [r \in ConcSlots |-> no_result]
    /\ obs = [r \in ConcSlots |-> no_obs]
    /\ calc = calc_off
    /\ chats = <<>>
    /\ tsvc = tsvc_off
    /\ gate = gate_off
    /\ ws = ws_off

\* a call of run() on the service "a1" under a thread id no other turn uses
concurrent_run_start(r) ==
    /\ run[r].pc = "idle"
    /\ \E query \in ConcQueries, thread_id \in FirstNotIn(Threads, TakenThreads) :
        Enter(r, "a1", thread_id, query, "run", "none")
    /\ UNCHANGED <<settings, rag_service, registry, calc, chats, tsvc, gate, ws>>

ConcNext ==
    \E r \in ConcSlots :
        \/ concurrent_run_start(r)
        \/ _guardrails_node(r)
        \/ _rag_retrieval_node(r)
        \/ _agent_node(r)
        \/ _tool_execution_node(r)
        \/ _response_generation_node(r)

ConcSpec == ConcInit /\ [][ConcNext]_vars

(***************************************************************************)
(* run() called again on a thread whose turn was rejected or reached the   *)
(* iteration limit: the thread's checkpoint holds that turn's channels.    *)
(***************************************************************************)
\* the first call of run() on a service, under a thread id
run_first(r) ==
    /\ run[r].pc = "idle"
    /\ \E query \in Queries : Enter(r, "a1", "t1", query, "run", "none")
    /\ UNCHANGED <<settings, rag_service, registry, calc, chats, tsvc, gate, ws>>

\* run() on the same service and thread id, with an input the gate accepts,
\* after a turn that the gate rejected or that reached the iteration limit
run_again(r) ==
    /\ run[r].pc = "done"
    /\ run[r].turn < MaxTurns
    /\ state[r].guardrails_rejected \/ obs[r].limit_hit
    /\ Enter(r, run[r].agent, run[r].thread_id, <<"What is 2+2?">>, "run", "none")
    /\ UNCHANGED <<settings, rag_service, registry, calc, chats, tsvc, gate, ws>>

AgainNext ==
    \E r \in Slots :
        \/ run_first(r)
        \/ run_again(r)
        \/ _guardrails_node(r)
        \/ _rag_retrieval_node(r)
        \/ _agent_node(r)
        \/ _tool_execution_node(r)
        \/ _response_generation_node(r)

AgainSpec == Init /\ [][AgainNext]_vars

(***************************************************************************)
(* The GuardrailsService on its own: check_input and check_output are      *)
(* called on texts, under every configuration of the gate.                 *)
(***************************************************************************)
\* the texts checked: clean, toxic (also in upper case, and a word that only
\* contains a toxic one), with PII of each kind, toxic with PII
GateTexts ==
    { <<>>, <<"hello">>, <<"hate">>, <<"HATE">>, <<"hateful">>, <<"violence">>, <<"harmful">>,
      <<"a@b.com">>, <<"555-123-4567">>, <<"123-45-6789">>, <<"4111-1111-1111-1111">>,
      <<"I", "hate", "a@b.com">>, <<"contact", "me", "at", "a@b.com">> }
\* the values of GUARDRAILS_MAX_TOXICITY_SCORE explored: 0.0, 0.5, 1.0
ToxicityCeilings == { [n |-> 0, d |-> 1], GUARDRAILS_MAX_TOXICITY_SCORE, [n |-> 1, d |-> 1] }

GateInit ==
    /\ settings \in [GUARDRAILS_ENABLED : BOOLEAN,
                     GUARDRAILS_MAX_TOXICITY_SCORE : ToxicityCeilings,
                     GUARDRAILS_MAX_PII_DETECTION : BOOLEAN,
                     GUARDRAILS_FALLBACK_ENABLED : BOOLEAN,
                     AGENT_ENABLE_TOOLS : {TRUE}, LLM_PROVIDER : {"groq"},
                     AGENT_ENABLE_MCP : {FALSE}, AGENT_ENABLE_A2A : {FALSE}]
    /\ registry = [i \in Range(Insts) |-> no_registry]
    /\ NoTurns
    /\ calc = calc_off
    /\ tsvc = tsvc_off
    /\ gate = [gate_off EXCEPT !.pc = "idle"]
    /\ ws = ws_off

\* what a check leaves: the call, the score _check_toxicity gave and the
\* verdict returned
Checked(fn, text, out) ==
    /\ gate' = [gate EXCEPT !.checks = Append(@, [fn |-> fn, text |-> text,
                                                  toxicity_score |-> _check_toxicity(text),
                                                  out |-> out])]
    /\ UNCHANGED <<settings, rag_service, registry, checkpointer, thread_log, turns, run,
                   state, result, obs, calc, chats, tsvc, ws>>

GuardrailsService_check_input ==
    /\ gate.pc = "idle"
    /\ Len(gate.checks) < MaxChecks
    /\ \E text \in GateTexts : Checked("check_input", text, check_input(settings, text))

GuardrailsService_check_output ==
    /\ gate.pc = "idle"
    /\ Len(gate.checks) < MaxChecks
    /\ \E text \in GateTexts : Checked("check_output", text, check_output(settings, text))

GateNext ==
    \/ GuardrailsService_check_input
    \/ GuardrailsService_check_output

GateSpec == GateInit /\ [][GateNext]_vars

(***************************************************************************)
(* A WebSocket connection: websocket_chat of app/routers/chat.py (the      *)
(* router main.py mounts) or of app/api/routes/chat.py, after accept and   *)
(* authentication, with its client.  The settings are the defaults of      *)
(* config.py.                                                              *)
(***************************************************************************)
WsImpls == {"app/routers/chat.py", "app/api/routes/chat.py"}
WsSlots == {"r1", "r2"}
\* what a client sends: text that is not JSON, a message without text, a
\* message with text
WsData ==
    { [json |-> FALSE, message |-> <<>>], [json |-> TRUE, message |-> <<>>],
      [json |-> TRUE, message |-> <<"What is 2+2?">>] }

WsInit ==
    /\ settings = [GUARDRAILS_ENABLED |-> TRUE,
                   GUARDRAILS_MAX_TOXICITY_SCORE |-> GUARDRAILS_MAX_TOXICITY_SCORE,
                   GUARDRAILS_MAX_PII_DETECTION |-> GUARDRAILS_MAX_PII_DETECTION,
                   GUARDRAILS_FALLBACK_ENABLED |-> GUARDRAILS_FALLBACK_ENABLED,
                   AGENT_ENABLE_TOOLS |-> TRUE, LLM_PROVIDER |-> "groq",
                   AGENT_ENABLE_MCP |-> FALSE, AGENT_ENABLE_A2A |-> FALSE]
    \* the handler builds its AgentService with a db_session
    /\ rag_service = [i \in Range(Insts) |-> TRUE]
    /\ registry = [i \in Range(Insts) |-> no_registry]
    /\ checkpointer = [i \in Range(Insts) |-> <<>>]
    /\ thread_log = <<>>
    /\ turns = 0
    /\ run = [r \in WsSlots |-> idle_run]
    /\ state = [r \in WsSlots |-> empty_channels]
    /\ result = [r \in WsSlots |-> no_result]
    /\ obs = [r \in WsSlots |-> no_obs]
    /\ calc = calc_off
    /\ chats = <<>>
    /\ tsvc = tsvc_off
    /\ gate = gate_off
    /\ \E impl \in WsImpls :
        ws = [ws_off EXCEPT !.pc = "receive", !.impl = impl, !.connected = TRUE]

\* the client sends data
client_send ==
    /\ ws.connected
    /\ ws.posted < MaxMessages
    /\ \E data \in WsData :
        ws' = [ws EXCEPT !.inbox = Append(@, data), !.posted = @ + 1]
    /\ UNCHANGED <<settings, rag_service, registry, checkpointer, thread_log, turns, run,
                   state, result, obs, calc, chats, tsvc, gate>>

\* the client goes away, at any moment
client_disconnect ==
    /\ ws.connected
    /\ ws' = [ws EXCEPT !.connected = FALSE,
                        !.lost_in = IF ws.pc \in {"streaming", "running"}
                                    THEN ws.message ELSE 0]
    /\ UNCHANGED <<settings, rag_service, registry, checkpointer, thread_log, turns, run,
                   state, result, obs, calc, chats, tsvc, gate>>

\* where the handler is after websocket.send_json(...): a send to a client
\* that went away raises; caught says whether the handler goes on
after_send(caught) ==
    IF ws.connected \/ caught THEN "receive" ELSE "closed"

\* a variant of the handler that leaves the stream to a background task
stream_in_background == "receive"
\* async for event in agent_service.stream(...): the handler awaits the stream
stream_awaited == "streaming"

\* the loop head up to the acknowledgement, for data that starts no turn:
\* receive_text() raises WebSocketDisconnect once the client is gone and
\* nothing is left to read; data that is not JSON is answered with an error
\* (api/routes) or ends the handler (routers); an empty message is answered
\* with an error; the acknowledgement of a message cannot be sent
websocket_chat_receive ==
    /\ ws.pc = "receive"
    /\ IF ws.inbox = <<>>
       THEN /\ ~ws.connected
            /\ ws' = [ws EXCEPT !.pc = "closed"]
       ELSE LET data == Head(ws.inbox)
            IN  /\ ~data.json \/ data.message = <<>> \/ ~ws.connected
                /\ ws' = [ws EXCEPT
                        !.inbox = Tail(@),
                        !.pc = IF ~data.json /\ ws.impl = "app/routers/chat.py"
                               THEN "closed" ELSE after_send(FALSE)]
    /\ UNCHANGED <<settings, rag_service, registry, checkpointer, thread_log, turns, run,
                   state, result, obs, calc, chats, tsvc, gate>>

\* the slots in which a workflow execution is in progress
Executing == {q \in WsSlots : run[q].pc \in {"guardrails", "rag_retrieval", "agent",
                                              "tool_execution", "response_generation"}}

\* the loop head for a message: it is acknowledged and streamed on the
\* connection's AgentService under the connection's thread id
websocket_chat_stream_message(r) ==
    /\ ws.pc = "receive"
    /\ ws.inbox # <<>>
    /\ Head(ws.inbox).json /\ Head(ws.inbox).message # <<>> /\ ws.connected
    /\ r \in FirstNotIn(<<"r1", "r2">>, Executing)
    /\ Enter(r, ws.agent, ws.thread_id, Head(ws.inbox).message, "stream", "websocket_chat")
    /\ ws' = [ws EXCEPT !.inbox = Tail(@), !.pc = stream_awaited, !.slot = r,
                        !.message = @ + 1, !.sent = 0, !.executions = 1,
                        !.final_result = None]
    /\ UNCHANGED <<settings, rag_service, registry, calc, chats, tsvc, gate>>

\* the body of the async for: the event is sent on; api/routes catches a
\* failed send and keeps the event's state as final_result, routers lets the
\* exception end the handler, which closes the stream
websocket_chat_send_event(r) ==
    /\ ws.pc = "streaming"
    /\ r = ws.slot
    /\ ws.sent < Len(run[r].events)
    /\ IF ws.impl = "app/api/routes/chat.py"
       THEN /\ ws' = [ws EXCEPT !.sent = @ + 1,
                                !.final_result = Some(final_result(SubSeq(run[r].events, 1,
                                                                          ws.sent + 1)))]
            /\ run' = run
       ELSE IF ws.connected
       THEN /\ ws' = [ws EXCEPT !.sent = @ + 1]
            /\ run' = run
       ELSE /\ ws' = [ws EXCEPT !.pc = "closed"]
            /\ run' = [run EXCEPT ![r].pc = "abandoned"]
    /\ UNCHANGED <<settings, rag_service, registry, checkpointer, thread_log, turns,
                   state, result, obs, calc, chats, tsvc, gate>>

\* the stream of slot r runs its next stage once the handler has taken the
\* event of the stage before
StreamDrained(r) ==
    (run[r].entry = "stream" /\ r = ws.slot) => ws.sent = Len(run[r].events)

\* the stream is exhausted and run() is called for the same message: always
\* in routers, in api/routes if no event gave a final_result
websocket_chat_run(r) ==
    /\ ws.pc = "streaming"
    /\ r = ws.slot
    /\ run[r].pc = "done"
    /\ ws.sent = Len(run[r].events)
    /\ ws.impl = "app/routers/chat.py" \/ ws.final_result = None
    /\ Enter(r, ws.agent, ws.thread_id, run[r].query, "run", "websocket_chat")
    /\ ws' = [ws EXCEPT !.pc = "running", !.executions = @ + 1]
    /\ UNCHANGED <<settings, rag_service, registry, calc, chats, tsvc, gate>>

\* the Chat record is added and committed, then the final response is sent
websocket_chat_commit(r) ==
    /\ r = ws.slot
    /\ run[r].pc = "done"
    /\ \/ ws.pc = "running"
       \/ /\ ws.pc = "streaming"
          /\ ws.sent = Len(run[r].events)
          /\ ws.impl = "app/api/routes/chat.py" /\ ws.final_result # None
    /\ chats' = Append(chats, Chat(run[r].query,
                                   IF ws.pc = "running" THEN result[r].response
                                   ELSE ws.final_result[1].response,
                                   "websocket_chat"))
    /\ ws' = [ws EXCEPT !.committed = Append(@, ws.message),
                        !.pc = after_send(ws.impl = "app/api/routes/chat.py")]
    /\ run' = [run EXCEPT ![r].pc = "responded"]
    /\ UNCHANGED <<settings, rag_service, registry, checkpointer, thread_log, turns,
                   state, result, obs, calc, tsvc, gate>>

\* the workflow raised: the inner except clause answers with an error
websocket_chat_error(r) ==
    /\ ws.pc \in {"streaming", "running"}
    /\ r = ws.slot
    /\ run[r].pc = "raised"
    /\ ws' = [ws EXCEPT !.pc = after_send(ws.impl = "app/api/routes/chat.py")]
    /\ run' = [run EXCEPT ![r].pc = "failed"]
    /\ UNCHANGED <<settings, rag_service, registry, checkpointer, thread_log, turns,
                   state, result, obs, calc, chats, tsvc, gate>>

WsNext ==
    \/ client_send
    \/ client_disconnect
    \/ websocket_chat_receive
    \/ \E r \in WsSlots :
        \/ websocket_chat_stream_message(r)
        \/ websocket_chat_send_event(r)
        \/ websocket_chat_run(r)
        \/ websocket_chat_commit(r)
        \/ websocket_chat_error(r)
        \/ StreamDrained(r) /\ _guardrails_node(r)
        \/ StreamDrained(r) /\ _rag_retrieval_node(r)
        \/ StreamDrained(r) /\ _agent_node(r)
        \/ StreamDrained(r) /\ _response_generation_node(r)

WsSpec == WsInit /\ [][WsNext]_vars

(***************************************************************************)
(* Properties.                                                             *)
(***************************************************************************)
\* the settings with the gate enabled
GateOn == [settings EXCEPT !.GUARDRAILS_ENABLED = TRUE]
NodePcs == {"guardrails", "rag_retrieval", "agent", "tool_execution", "response_generation"}
LLMCalls(o) == o.gwt_calls + o.generate_calls

\* C1: in every state of a turn 0 <= iteration_count <= AGENT_MAX_ITERATIONS
\* and the iteration count run() returns is at most the maximum; a step of
\* a turn that consults the LLM and returns adds exactly one to
\* iteration_count, every other step of the turn leaves it as it is.
C1_IterationCount ==
    /\ [](\A r \in Slots :
            /\ state[r].iteration_count \in 0..AGENT_MAX_ITERATIONS
            /\ result[r].iterations \in 0..AGENT_MAX_ITERATIONS)
    /\ [][\A r \in Slots :
            run[r].pc \in NodePcs =>
                IF LLMCalls(obs'[r]) > LLMCalls(obs[r]) /\ run'[r].pc # "raised"
                THEN state'[r].iteration_count = state[r].iteration_count + 1
                ELSE state'[r].iteration_count = state[r].iteration_count]_vars

\* a turn whose backend asked for tools at every step returned at the limit
C1_Witness ==
    \E r \in Slots :
        /\ run[r].pc = "done"
        /\ obs[r].limit_hit
        /\ result[r].iterations = AGENT_MAX_ITERATIONS
        /\ LLMCalls(obs[r]) = AGENT_MAX_ITERATIONS

\* C2: a turn whose backend asks for a tool call at every reasoning step
\* ends with iteration_count = AGENT_MAX_ITERATIONS, with the limit message
\* as the final assistant message of its conversation and as the response
\* of run().
C2_LimitMessage ==
    \A r \in Slots :
        (run[r].pc = "done" /\ obs[r].limit_hit) =>
            /\ result[r].iterations = AGENT_MAX_ITERATIONS
            /\ Last(state[r].messages) = AIMessage(LimitMessage, <<>>)
            /\ result[r].response = LimitMessage

InputRejected(r) ==
    /\ run[r].pc # "idle"
    /\ settings.GUARDRAILS_ENABLED
    /\ ~check_input(GateOn, run[r].query).is_safe

\* C3: with the gate enabled and an input that fails check_input, the
\* retriever, generate and generate_with_tools are never called and no tool
\* is executed in the turn, run() does not raise, and it returns a response
\* containing the rejection reason with iterations = 0.
C3_RejectedInput ==
    \A r \in Slots :
        InputRejected(r) =>
            /\ run[r].pc \in {"guardrails", "done"}
            /\ obs[r].retriever_calls = 0
            /\ obs[r].generate_calls = 0
            /\ obs[r].gwt_calls = 0
            /\ obs[r].exec_log = <<>>
            /\ run[r].pc = "done" =>
                /\ result[r].status = "returned"
                /\ Contains(result[r].response, check_input(GateOn, run[r].query).reason)
                /\ result[r].iterations = 0

C3_Witness ==
    \E r \in Slots :
        /\ InputRejected(r)
        /\ run[r].pc = "done"
        /\ result[r].status = "returned"
        /\ result[r].response # <<>>

\* the turn of slot r is over, its backend asked for exactly one tool call
\* at each step but the last and for none at the last, and every call
\* returned
SingleCallsThenNone(r) ==
    LET answers == obs[r].answers
    IN  /\ run[r].pc = "done"
        /\ answers # <<>>
        /\ Last(answers).tool_calls = <<>>
        /\ \A i \in 1..(Len(answers) - 1) : Len(answers[i].tool_calls) = 1
        /\ Len(obs[r].exec_log) = Len(answers) - 1
        /\ \A i \in DOMAIN obs[r].exec_log : ~obs[r].exec_log[i].raised

\* C4: when the backend asks for one succeeding tool call at each of its
\* first N steps (N < AGENT_MAX_ITERATIONS) and for none at step N + 1,
\* run() returns N tool_results, one per executed call in execution order,
\* and (the output gate letting it through) the text of step N + 1.
C4_ToolLoopResults ==
    \A r \in Slots :
        SingleCallsThenNone(r) =>
            LET answers == obs[r].answers
                executed == obs[r].exec_log
            IN  /\ Len(result[r].tool_results) = Len(answers) - 1
                /\ result[r].tool_results =
                        [i \in DOMAIN executed |->
                            [tool |-> executed[i].call.name, result |-> executed[i].value]]
                /\ check_output(settings, Last(answers).content).is_safe
                        => result[r].response = Last(answers).content

\* the nodes of an expression tree, operators included
RECURSIVE TreeNodes(_)
TreeNodes(node) ==
    {node.k} \cup UNION {TreeNodes(child) : child \in Range(Children(node))}

\* an expression of at most 100 characters built from numeric literals, the
\* binary operators + - * /, parentheses and spaces that is syntactically
\* valid and does not divide by zero
PlainArithmetic(expression) ==
    /\ Len(expression) <= 100
    /\ \A i \in DOMAIN expression :
            expression[i] \in Digits \cup {"+", "-", "*", "/", "(", ")", " "}
    /\ ast_parse(expression).ok
    /\ TreeNodes(ast_parse(expression).node)
            \subseteq {"Constant", "BinOp", "Add", "Sub", "Mult", "Div"}
    /\ py_eval_node(ast_parse(expression).node).err = None

\* C5: for every plain arithmetic expression the calculator of
\* app/ai/tools.py returns the decimal string of the expression's value
\* ("2+2" gives "4").
C5_CalculatorValue ==
    (calc.pc = "returned" /\ calc.impl = "app/ai/tools.py" /\ PlainArithmetic(calc.expression))
        => calc.out = str(py_eval_node(ast_parse(calc.expression).node).val)

\* what the calculator has to turn down: a character other than a digit,
\* + - * / ( ) or a space, an exponentiation, a function call, or more than
\* 100 characters
MustBeRejected(expression) ==
    \/ \E i \in DOMAIN expression :
            expression[i] \notin Digits \cup {"+", "-", "*", "/", "(", ")", " "}
    \/ Contains(expression, <<"*", "*">>)
    \/ ast_parse(lstrip(expression)).ok
            /\ "Call" \in TreeNodes(ast_parse(lstrip(expression)).node)
    \/ Len(expression) > 100

\* C6: each calculator (app/ai/tools.py, app/services/tool_service.py)
\* answers an expression that has to be turned down with an error string,
\* and computes no value for it.
C6_CalculatorRejects ==
    (calc.pc = "returned" /\ MustBeRejected(calc.expression))
        => (calc.out # <<>> /\ calc.out[1] = "Error: ")

\* the conversation without the system prompt the agent node puts in front
WithoutSystemPrompt(messages) ==
    IF messages # <<>> /\ messages[1] = SystemMessage(_get_system_prompt)
    THEN Tail(messages) ELSE messages

\* C7: a call on the service and thread id of the call before it starts
\* from the whole final conversation of that call followed by its own user
\* message; throughout a turn the conversation saved for the thread when
\* the turn began, followed by the turn's user message, is the beginning of
\* the turn's conversation, of the thread's checkpoint and of what the
\* backend is given (after the system prompt).
C7_HistoryKept ==
    /\ [](\A r \in Slots :
            run[r].pc # "idle" =>
                LET begun == obs[r].history \o <<HumanMessage(run[r].query)>>
                IN  /\ IsPrefix(begun, state[r].messages)
                    /\ Saved(checkpointer[run[r].agent], run[r].thread_id) = state[r]
                    /\ obs[r].llm_input # <<>> =>
                            IsPrefix(begun, WithoutSystemPrompt(obs[r].llm_input)))
    /\ [][\A r \in Slots :
            (/\ run[r].pc = "done"
             /\ run'[r].pc = "guardrails"
             /\ run'[r].agent = run[r].agent
             /\ run'[r].thread_id = run[r].thread_id) =>
                /\ obs'[r].history = state[r].messages
                /\ state'[r].messages = state[r].messages \o <<HumanMessage(run'[r].query)>>]_vars

\* a second call on a thread finished after the backend was given the first
\* call's conversation
C7_Witness ==
    \E r \in Slots :
        /\ run[r].pc = "done"
        /\ turns = 2
        /\ obs[r].history # <<>>
        /\ Last(obs[r].history).type = "ai"
        /\ Len(obs[r].llm_input) > Len(obs[r].history) + 1

\* C8: a turn started with a thread id continues from the conversation last
\* saved under that id, whichever service ran the earlier turn; a turn with
\* an id never used starts from the empty conversation.
C8_ThreadContinues ==
    \A r \in Slots :
        run[r].pc # "idle" =>
            obs[r].history = (IF obs[r].thread_known THEN obs[r].thread_history ELSE <<>>)

\* C9: a reasoning step in which generate_with_tools raised called generate
\* once, on the conversation generate_with_tools was given; when generate
\* returned, its text is the step's assistant message, without tool calls,
\* the turn goes on to response_generation and run() returns.
C9_FallbackToGenerate ==
    \A r \in Slots :
        obs[r].step.gwt_raised =>
            /\ obs[r].step.generate_calls = 1
            /\ obs[r].generate_input = obs[r].llm_input
            /\ ~obs[r].step.generate_raised =>
                /\ run[r].pc \in {"response_generation", "done"}
                /\ Last(obs[r].answers).type = "ai"
                /\ Last(obs[r].answers).tool_calls = <<>>
                /\ run[r].pc = "response_generation" =>
                        Last(state[r].messages) = Last(obs[r].answers)
                /\ run[r].pc = "done" =>
                        /\ result[r].status = "returned"
                        /\ Last(state[r].messages).type = "ai"
                        /\ result[r].response = Last(state[r].messages).content
                        /\ \/ result[r].response = Last(obs[r].answers).content
                           \/ IsPrefix(<<"Response filtered: ">>, result[r].response)

C9_Witness ==
    \E r \in Slots :
        /\ run[r].pc = "done"
        /\ obs[r].step.gwt_raised
        /\ ~obs[r].step.generate_raised
        /\ result[r].status = "returned"
        /\ result[r].response = Last(obs[r].answers).content

\* C10: a tool-execution stage for an assistant message with k tool calls
\* leaves the conversation it found followed by exactly k tool messages, in
\* call order, each with the id of its call and, when the call raised, an
\* error text; control goes back to the reasoning step.
C10_ToolMessages ==
    [][\A r \in Slots :
        run[r].pc = "tool_execution" =>
            LET before == state[r].messages
                after == state'[r].messages
                calls == Last(before).tool_calls
                executed == SubSeq(obs'[r].exec_log, Len(obs[r].exec_log) + 1,
                                   Len(obs'[r].exec_log))
            IN  /\ run'[r].pc = "agent"
                /\ Len(executed) = Len(calls)
                /\ Len(after) = Len(before) + Len(calls)
                /\ IsPrefix(before, after)
                /\ \A i \in DOMAIN calls :
                    /\ executed[i].call = calls[i]
                    /\ after[Len(before) + i].type = "tool"
                    /\ after[Len(before) + i].tool_call_id = calls[i].id
                    /\ executed[i].raised =>
                            IsPrefix(<<"Error executing tool: ">>, after[Len(before) + i].content)]_vars
\* a call of execute_tool has returned or raised
ToolCallMade == tsvc.pc = "returned"

\* C11: execute_tool(name, args) never raises for a tool that exists: a
\* validation error of the arguments or an exception of the tool's handler
\* comes back as a value, not as an exception.
C11_ExecuteToolNeverRaises ==
    (ToolCallMade /\ tsvc.tool_name \in tsvc.available) => ~tsvc.out.raised

\* C12: whatever was registered and whatever the MCP and A2A settings are,
\* execute_tool(name, args) finds a tool (validates the arguments, runs the
\* handler) exactly when get_available_tools() returns a tool of that name;
\* for every other name it raises the not-found error and no handler runs.
C12_ExecuteIffAvailable ==
    ToolCallMade =>
        IF tsvc.tool_name \in tsvc.available
        THEN tsvc.out # ToolNotFound(tsvc.tool_name)
        ELSE tsvc.out = ToolNotFound(tsvc.tool_name)


\* C13: for an input that the input gate rejects, the transport function
\* that called the workflow (create_chat, ChatService.create_chat,
\* websocket_chat) writes no Chat record.
C13_NoRecordForRejected ==
    \A i \in DOMAIN chats :
        ~(settings.GUARDRAILS_ENABLED /\ ~check_input(GateOn, chats[i].question).is_safe)

\* C14: stream() yields exactly one event per stage the graph executes, in
\* the order of the stages, and the state carried by its last event has the
\* last message, the tool_results and the iteration_count of the final state
\* of the graph, from which run() derives its result.
C14_StreamMatchesRun ==
    \A r \in Slots :
        run[r].entry = "stream" =>
            LET events == run[r].events
                \* the stages that returned: all but one that raised
                returned == IF run[r].pc = "raised"
                            THEN SubSeq(run[r].stages, 1, Len(run[r].stages) - 1)
                            ELSE run[r].stages
            IN  /\ [i \in DOMAIN events |-> events[i].node] = returned
                /\ run[r].pc = "done" =>
                    LET last_event == Last(events).state
                        final_state == state[r]
                    IN  /\ Last(last_event.messages) = Last(final_state.messages)
                        /\ last_event.tool_results = final_state.tool_results
                        /\ last_event.iteration_count = final_state.iteration_count
                        /\ run_result(last_event).response = run_result(final_state).response

\* a streamed turn that ran a tool stage and came to its end
C14_Witness ==
    \E r \in Slots :
        /\ run[r].entry = "stream"
        /\ run[r].pc = "done"
        /\ run[r].stages = <<"guardrails", "rag_retrieval", "agent", "tool_execution",
                             "agent", "response_generation">>
        /\ Len(run[r].events) = 6
        /\ state[r].tool_results # <<>>

\* C15: of two turns that run at once on one service under distinct
\* thread ids, each starts from its own thread's (empty) conversation, a step
\* of one leaves the state, the observations and the result of the other as
\* they are, the checkpoint of a turn's thread always holds that turn's own
\* state, and the result of a turn is derived from its own final state:
\* under every interleaving a turn runs as it would alone.
C15_ConcurrentTurnsIndependent ==
    /\ [](\A r \in ConcSlots :
            run[r].pc # "idle" =>
                /\ obs[r].history = <<>>
                /\ \A q \in ConcSlots \ {r} : run[q].pc # "idle" => run[q].thread_id # run[r].thread_id
                /\ run[r].thread_id \in SavedThreads(checkpointer[run[r].agent])
                /\ Saved(checkpointer[run[r].agent], run[r].thread_id) = state[r]
                /\ run[r].pc = "done" => result[r] = run_result(state[r]))
    /\ [][\A r \in ConcSlots :
            run'[r] # run[r] =>
                \A q \in ConcSlots \ {r} :
                    /\ run'[q] = run[q]
                    /\ state'[q] = state[q]
                    /\ obs'[q] = obs[q]
                    /\ result'[q] = result[q]]_vars

\* both turns are under way: one is about to execute tools, the other is at
\* its reasoning step
C15_Witness ==
    /\ run["r1"].pc = "tool_execution"
    /\ run["r2"].pc = "agent"
    /\ run["r1"].agent = run["r2"].agent
    /\ run["r1"].thread_id # run["r2"].thread_id
    /\ obs["r1"].gwt_calls > 0

\* the conversation of the turn's latest reasoning step was given the
\* retrieved context
ContextInjected(r) ==
    \E i \in DOMAIN obs[r].llm_input :
        /\ obs[r].llm_input[i].type = "system"
        /\ IsPrefix(<<"Relevant context from documents:\n">>, obs[r].llm_input[i].content)

\* C16: the context_used flag run() returns is true exactly when the
\* retrieved context was put into the conversation of the reasoning step; it
\* is false without a retriever and when the retriever returned an empty
\* context.
C16_ContextUsedFlag ==
    \A r \in Slots :
        (run[r].pc = "done" /\ result[r].status = "returned") =>
            /\ result[r].context_used <=> ContextInjected(r)
            /\ ~rag_service[run[r].agent] => ~result[r].context_used
            /\ state[r].context = Some(<<>>) => ~result[r].context_used

\* C17: when the retriever raises, the exception does not leave the
\* retrieve stage: the stage returns, the turn goes on to the reasoning
\* step with the retrieval-error text as its context, run() raises only if
\* the LLM backend does, and its result has context_used false or comes
\* from a context that contains the error text.
C17_RetrieverFailure ==
    /\ [](\A r \in Slots :
            obs[r].retriever_raised # None =>
                /\ "agent" \in Range(run[r].stages) \/ run[r].pc = "agent"
                /\ run[r].pc = "raised" => obs[r].step.generate_raised
                /\ run[r].pc = "done" =>
                    /\ result[r].status = "returned"
                    /\ \/ ~result[r].context_used
                       \/ /\ state[r].context # None
                          /\ Contains(state[r].context[1], obs[r].retriever_raised))
    /\ [][\A r \in Slots :
            (obs[r].retriever_raised = None /\ obs'[r].retriever_raised # None) =>
                /\ run[r].pc = "rag_retrieval"
                /\ run'[r].pc = "agent"
                /\ Contains(state'[r].context[1], obs'[r].retriever_raised)]_vars

\* a turn whose retriever raised came to its end with an answer
C17_Witness ==
    \E r \in Slots :
        /\ obs[r].retriever_raised # None
        /\ run[r].pc = "done"
        /\ result[r].status = "returned"
        /\ result[r].response # <<>>
        /\ result[r].context_used

\* stages is a sequence safety_in, retrieve, reason, (execute_tools, reason)*,
\* safety_out or a beginning of one
WorkflowStages(stages) ==
    /\ \A i \in DOMAIN stages :
        CASE i = 1 -> stages[i] = "guardrails"
          [] i = 2 -> stages[i] = "rag_retrieval"
          [] i = 3 -> stages[i] = "agent"
          [] OTHER ->
                \/ stages[i] = "tool_execution" /\ stages[i - 1] = "agent"
                \/ stages[i] = "agent" /\ stages[i - 1] = "tool_execution"
                \/ stages[i] = "response_generation" /\ stages[i - 1] = "agent"
    /\ \A i \in DOMAIN stages :
        /\ stages[i] = "response_generation" => i = Len(stages)
        /\ (stages[i] = "tool_execution" /\ i < Len(stages)) => stages[i + 1] = "agent"

\* C18: the stages of a turn are safety_in, then either the rejected end or
\* retrieve, reason, (execute_tools, reason)*, safety_out and the end.  The
\* turn is rejected only straight from safety_in and exactly when the input
\* fails the gate; retrieve runs once, before the first reason, and the
\* retriever is called at most once; execute_tools is always followed by
\* reason; safety_out runs once, as the last stage.
C18_StageOrder ==
    \A r \in Slots :
        LET stages == run[r].stages
        IN  /\ WorkflowStages(stages)
            /\ run[r].pc \in NodePcs => WorkflowStages(Append(stages, run[r].pc))
            /\ obs[r].retriever_calls <= 1
            /\ (InputRejected(r) /\ stages # <<>>) => (stages = <<"guardrails">> /\ run[r].pc = "done")
            /\ run[r].pc = "done" =>
                IF InputRejected(r) THEN stages = <<"guardrails">>
                ELSE /\ Last(stages) = "response_generation"
                     /\ Len(stages) >= 4
            /\ run[r].pc = "raised" => Last(stages) = "agent"

\* a turn went twice through execute_tools and came to its end
C18_Witness ==
    \E r \in Slots :
        /\ run[r].pc = "done"
        /\ run[r].stages = <<"guardrails", "rag_retrieval", "agent", "tool_execution", "agent",
                             "tool_execution", "agent", "response_generation">>

\* the tool stages the turn of slot r has entered
ToolStages(r) == Cardinality({i \in DOMAIN run[r].stages : run[r].stages[i] = "tool_execution"})

\* C19: every turn comes to its end: once started it reaches done (the
\* rejected end included), or run() raises because a call of the LLM backend
\* did; this also against a backend that asks for tools at every reasoning
\* step.  The cycle of reasoning and tool execution is left through the
\* no-tool-calls branch, at the latest when the iteration limit is hit, so a
\* turn executes at most AGENT_MAX_ITERATIONS tool stages.
C19_TurnsTerminate ==
    /\ [](\A r \in Slots :
            /\ ToolStages(r) <= AGENT_MAX_ITERATIONS
            /\ run[r].pc = "raised" => obs[r].step.generate_raised
            /\ run[r].pc = "tool_execution" => Last(state[r].messages).tool_calls # <<>>
            /\ obs[r].limit_hit => run[r].pc \in {"response_generation", "done"})
    /\ [][\A r \in Slots : TurnMoves(r) <=> NodeStep(r)]_vars
    /\ \A r \in Slots :
        (run[r].pc \in NodePcs) ~> (run[r].pc \in {"done", "raised"})

\* a turn whose backend asked for tools at every step came to its end
C19_Witness ==
    \E r \in Slots :
        /\ run[r].pc = "done"
        /\ obs[r].limit_hit
        /\ ToolStages(r) = AGENT_MAX_ITERATIONS
        /\ result[r].status = "returned"

\* tool use is enabled for the active backend (lines 159-161)
ToolUseEnabled == settings.AGENT_ENABLE_TOOLS /\ settings.LLM_PROVIDER # "groq"

\* C20: after a reasoning step the tool stage is entered exactly when the
\* step produced an assistant message that carries at least one tool call
\* and tool use is enabled for the backend; in every other case, that of a
\* step that hit the iteration limit included, safety_out is next; tools
\* are executed in the tool stage only.
C20_ToolStageEntry ==
    [][\A r \in Slots :
        /\ (run[r].pc = "agent" /\ run'[r].pc # "raised") =>
            LET produced == LLMCalls(obs'[r]) > LLMCalls(obs[r])
                wants_tools == /\ produced
                               /\ Last(obs'[r].answers).tool_calls # <<>>
                               /\ ToolUseEnabled
            IN  /\ produced <=> ~obs'[r].limit_hit
                /\ produced => Last(state'[r].messages) = Last(obs'[r].answers)
                /\ run'[r].pc = IF wants_tools THEN "tool_execution" ELSE "response_generation"
        /\ obs'[r].exec_log # obs[r].exec_log =>
            (run[r].pc = "tool_execution" \/ obs'[r].exec_log = <<>>)]_vars

\* a reasoning step with tools enabled produced tool calls and the tool
\* stage is next
C20_Witness ==
    \E r \in Slots :
        /\ run[r].pc = "tool_execution"
        /\ ToolUseEnabled
        /\ Len(Last(obs[r].answers).tool_calls) = 3

\* the tool calls of the assistant message a tool stage of slot r ran for
StageCalls(r) == Last(obs[r].answers).tool_calls
\* the tool stage of slot r has just run
AfterToolStage(r) == run[r].stages # <<>> /\ Last(run[r].stages) = "tool_execution"

\* C21: after a tool stage for an assistant message with k tool calls,
\* tool_results holds one entry for each of the k calls, in call order,
\* whether the call succeeded or failed: the entry names the tool and carries
\* the result or the error of the call.
C21_ToolResultsPerCall ==
    \A r \in Slots :
        AfterToolStage(r) =>
            LET calls == StageCalls(r)
                tool_results == state[r].tool_results
                executed == SubSeq(obs[r].exec_log, Len(obs[r].exec_log) - Len(calls) + 1,
                                   Len(obs[r].exec_log))
            IN  /\ Len(tool_results) = Len(calls)
                /\ \A i \in DOMAIN calls :
                    /\ tool_results[i].tool = calls[i].name
                    /\ tool_results[i].result = executed[i].value

\* C22: the safety_out stage (_response_generation_node) changes nothing but
\* possibly the last message: with the gate enabled, a last assistant message
\* that fails check_output is replaced by a message whose content is
\* "Response filtered: " and the reason and whose other fields are the
\* original's, otherwise the last message is unchanged; the length of the
\* conversation, every earlier message, iteration_count, tool_results and
\* context are unchanged.
C22_SafetyOutFrame ==
    [][\A r \in Slots :
        (run[r].pc = "response_generation" /\ run'[r].pc = "done") =>
            LET before == state[r].messages
                after == state'[r].messages
                last_message == Last(before)
                checked == check_output(settings, last_message.content)
            IN  /\ Len(after) = Len(before)
                /\ \A i \in 1..(Len(before) - 1) : after[i] = before[i]
                /\ Last(after) =
                        IF settings.GUARDRAILS_ENABLED /\ last_message.type = "ai"
                           /\ ~checked.is_safe
                        THEN [last_message EXCEPT
                                !.content = <<"Response filtered: ">> \o checked.reason]
                        ELSE last_message
                /\ state'[r].iteration_count = state[r].iteration_count
                /\ state'[r].tool_results = state[r].tool_results
                /\ state'[r].context = state[r].context]_vars

\* how many times the user message of the turn of slot r occurs in messages,
\* past the conversation the thread held when the turn began
UserMessageCount(r, messages) ==
    Cardinality({i \in (Len(obs[r].history) + 1)..Len(messages) :
                    messages[i] = HumanMessage(run[r].query)})

\* C23: within a turn the conversation is append-only: after every stage
\* the conversation before the stage is a prefix of the conversation after
\* it (but for the replacement of the last message by the safety_out stage),
\* and the user message of the turn occurs in it exactly once.
C23_AppendOnly ==
    [][\A r \in Slots :
        (run[r].pc \in NodePcs /\ run'[r].pc \in NodePcs \cup {"done"}) =>
            /\ \/ IsPrefix(state[r].messages, state'[r].messages)
               \/ /\ run[r].pc = "response_generation"
                  /\ IsPrefix(SubSeq(state[r].messages, 1, Len(state[r].messages) - 1),
                              state'[r].messages)
            /\ UserMessageCount(r, state'[r].messages) = 1]_vars

\* C27: in every reasoning step that calls the LLM, the conversation passed
\* to the LLM holds the system prompt (the text of _get_system_prompt) as a
\* system message, whether or not the turn has retrieved context.
C27_SystemPromptPassed ==
    \A r \in Slots :
        LLMCalls(obs[r]) > 0 =>
            \E i \in DOMAIN obs[r].llm_input :
                obs[r].llm_input[i] = SystemMessage(_get_system_prompt)

\* the turn of slot r has non-empty retrieved context
HasContext(r) == state[r].context # None /\ state[r].context[1] # <<>>
\* the context message the reasoning step of slot r builds (lines 137-139)
ContextMessage(r) ==
    SystemMessage(<<"Relevant context from documents:\n">> \o state[r].context[1])

\* C28: in every reasoning step of a turn with non-empty retrieved context,
\* the first and those after a tool stage alike, the context message is in
\* the conversation passed to the LLM immediately before the user message of
\* the turn, and never between an assistant message that asks for tool calls
\* and the tool messages that answer it.
C28_ContextPlacement ==
    \A r \in Slots :
        (LLMCalls(obs[r]) > 0 /\ HasContext(r)) =>
            LET messages == obs[r].llm_input
                at == {i \in DOMAIN messages : messages[i] = ContextMessage(r)}
            IN  /\ at # {}
                /\ \A i \in at :
                    /\ i < Len(messages)
                    /\ messages[i + 1] = HumanMessage(run[r].query)
                    /\ messages[i + 1].type # "tool"

\* the turn of slot r has just been started: no stage has run
TurnStarted(r) == run[r].pc = "guardrails" /\ run[r].stages = <<>>

\* C29: every turn, one on a thread that has a checkpoint included, starts
\* with iteration_count = 0, no context, empty tool_results and rejected =
\* false; so an earlier turn on the thread that was rejected or reached the
\* iteration limit never makes a later turn reject a safe input, nor hit the
\* limit before its own AGENT_MAX_ITERATIONS reasoning steps.
C29_TurnStartsFresh ==
    \A r \in Slots :
        /\ TurnStarted(r) =>
                /\ state[r].iteration_count = 0
                /\ state[r].context = None
                /\ state[r].tool_results = <<>>
                /\ state[r].guardrails_rejected = FALSE
        /\ (run[r].pc \in NodePcs \cup {"done"} /\ state[r].guardrails_rejected) =>
                ~check_input(settings, run[r].query).is_safe
        /\ obs[r].limit_hit => Len(obs[r].answers) = AGENT_MAX_ITERATIONS

\* a later turn on a thread whose earlier turn reached the iteration limit
\* (its last reasoning step asked for tools) ran one reasoning step and ended
C29_Witness ==
    \E r \in Slots :
        /\ run[r].pc = "done"
        /\ \E i \in DOMAIN obs[r].history :
            /\ obs[r].history[i].tool_calls # <<>>
            /\ obs[r].history[i].tool_calls[1].id[1] = AGENT_MAX_ITERATIONS
        /\ ~state[r].guardrails_rejected
        /\ state[r].iteration_count = 1
        /\ Len(obs[r].answers) = 1

\* some word of text is an e-mail address, a phone number, a national id or
\* a payment card number
HasPII(text) ==
    \E i \in DOMAIN text :
        text[i] \in {"a@b.com", "555-123-4567", "123-45-6789", "4111-1111-1111-1111"}
\* the score of a check is above the configured ceiling
AboveCeiling(c) ==
    c.toxicity_score.n * settings.GUARDRAILS_MAX_TOXICITY_SCORE.d
        > settings.GUARDRAILS_MAX_TOXICITY_SCORE.n * c.toxicity_score.d
\* the score of every check is in [0, 1] and two checks of one kind on the
\* same text return the same verdict
ScoresAndVerdictsStable ==
    /\ \A i \in DOMAIN gate.checks :
        /\ 0 <= gate.checks[i].toxicity_score.n
        /\ gate.checks[i].toxicity_score.n <= gate.checks[i].toxicity_score.d
    /\ \A i, j \in DOMAIN gate.checks :
        (gate.checks[i].fn = gate.checks[j].fn /\ gate.checks[i].text = gate.checks[j].text)
            => gate.checks[i].out = gate.checks[j].out

\* C24 as stated: with the gate enabled, check_input and check_output reject
\* a text exactly when its toxicity score exceeds the configured ceiling or a
\* PII pattern (e-mail, phone, national id, payment card) matches it; the
\* score is in [0, 1]; the same text gets the same verdict.
C24_GateVerdict ==
    /\ ScoresAndVerdictsStable
    /\ settings.GUARDRAILS_ENABLED =>
        \A i \in DOMAIN gate.checks :
            ~gate.checks[i].out.is_safe
                <=> (AboveCeiling(gate.checks[i]) \/ HasPII(gate.checks[i].text))

\* C24 amended: with the gate enabled, check_input and check_output reject
\* a text exactly when its toxicity score exceeds the configured ceiling, or
\* PII detection is enabled (GUARDRAILS_MAX_PII_DETECTION) and a PII pattern
\* matches it; the score is in [0, 1]; the same text gets the same verdict.
C24_GateVerdictPiiEnabled ==
    /\ ScoresAndVerdictsStable
    /\ settings.GUARDRAILS_ENABLED =>
        \A i \in DOMAIN gate.checks :
            ~gate.checks[i].out.is_safe
                <=> \/ AboveCeiling(gate.checks[i])
                    \/ settings.GUARDRAILS_MAX_PII_DETECTION /\ HasPII(gate.checks[i].text)

\* with the gate and PII detection enabled, check_input rejected a text for
\* its PII alone and check_output a text for its score
C24_Witness ==
    /\ settings.GUARDRAILS_ENABLED
    /\ settings.GUARDRAILS_MAX_PII_DETECTION
    /\ \E i, j \in DOMAIN gate.checks :
        /\ gate.checks[i].fn = "check_input"
        /\ HasPII(gate.checks[i].text) /\ ~AboveCeiling(gate.checks[i])
        /\ ~gate.checks[i].out.is_safe
        /\ gate.checks[j].fn = "check_output"
        /\ AboveCeiling(gate.checks[j]) /\ ~gate.checks[j].out.is_safe
\* C25: if the client of a WebSocket connection disconnects while a turn is
\* in progress, the calls in flight are left to finish and the result of the
\* turn is discarded: no Chat record is committed for that turn, nothing of
\* it is stored as a final answer.
C25_DisconnectDiscards ==
    \A i \in DOMAIN ws.committed : ws.committed[i] # ws.lost_in

\* C26: for each non-empty message received on a WebSocket connection the
\* workflow is executed exactly once on the connection's thread id: the
\* conversation of the thread gains the user message once and the backend is
\* not consulted a second time for the message before its Chat record is
\* written.
C26_PipelineOnce ==
    /\ ws.executions <= 1
    /\ \A i \in DOMAIN ws.committed : ws.committed[i] = ws.message => ws.executions = 1

\* C30: on one WebSocket connection the turns are processed one at a time:
\* the handler reads the next message from the socket only when the workflow
\* execution for the message before has finished, completed or failed, so
\* two executions on the thread id of the connection never overlap.
C30_OneTurnAtATime ==
    [][/\ Len(ws'.inbox) < Len(ws.inbox) => Executing = {}
       /\ \A q1, q2 \in WsSlots :
            (q1 \in Executing' /\ q2 \in Executing'
                /\ run'[q1].thread_id = run'[q2].thread_id) => q1 = q2]_vars

\* a message of the client waits in the socket while the workflow executes
\* for the message before it
C30_Witness ==
    /\ ws.pc \in {"streaming", "running"}
    /\ ws.slot \in Executing
    /\ ws.inbox # <<>>
    /\ Head(ws.inbox).json /\ Head(ws.inbox).message # <<>>
    /\ ws.connected

====
